---- MODULE Spec2Model ----
(***************************************************************************)
(* Model of WidgetSDKInstance (moysklad/js-widget-sdk): the correlation    *)
(* and dispatch engine that a widget uses to talk to its host over         *)
(* postMessage.  One SDK instance is modelled.  Every public method is an  *)
(* operator from an instance state (a record of the instance's fields) to  *)
(* the instance state after the call; an action of the state machine is    *)
(* one complete call of a method.                                          *)
(*                                                                         *)
(* Besides the fields of the instance the state holds what the last call   *)
(* did to the outside world: the settle calls it made on request promises, *)
(* the messages it posted, the listeners it invoked, the console lines it  *)
(* wrote and the value it returned.                                        *)
(***************************************************************************)
EXTENDS Integers, Sequences, FiniteSets, TLC

(***************************************************************************)
(* Bounds of the model.                                                    *)
(***************************************************************************)
\* Calls that allocate a message id are taken while _requestIdCounter < MaxId.
MaxId == 2

(***************************************************************************)
(* JavaScript values.  Ids are numbers; the two "absent" values are kept   *)
(* apart from every number and from each other.                            *)
(***************************************************************************)
Undefined == -1
Null == -2
\* The name of a message that has no (or an empty) name field.
NoName == ""

\* JavaScript truthiness of an id-valued expression (x || y, x ? y : z).
Truthy(v) == v /= Undefined /\ v /= Null /\ v /= 0

\* The errors field of a host message: absent, or an array of entries; an
\* entry is written as the text of its error field ("" when it has none).
NoErrors == [defined |-> FALSE, list |-> <<>>]
Errors(list) == [defined |-> TRUE, list |-> list]

\* Error objects that do not come from a host message.
TransportError == [name |-> "Error", message |-> "postMessage boom"]

TrackedNames == {"Open", "Change"}
\* Correlation ids inbound messages carry: none, or an id the counter can reach.
CorrelationIds == {Undefined} \cup (1..MaxId)
\* Message ids the host gives its Open and Change messages: none, or the id 1.
InboundIds == {Undefined, 1}

\* A field value that postMessage's structured clone carries and
\* JSON.stringify cannot print: a BigInt.
BigInt == "10n"
\* message with one more field, amount, that holds a BigInt.
WithAmount(message) == [amount |-> BigInt] @@ message
\* JSON.stringify(message) raises a TypeError: a field of message is a BigInt.
Unprintable(message) ==
    \E field \in DOMAIN message \cap {"amount", "popupResponse", "updateState"} :
        message[field] = BigInt

\* event.data that is not a structured object (null, undefined, a primitive).
NonObjects == {[isObject |-> FALSE, kind |-> "null"]}

HostMessage(n, c, m, e) ==
    [isObject |-> TRUE, name |-> n, correlationId |-> c, messageId |-> m, errors |-> e]

\* Inbound host messages: events, replies (correlated or not) and errors.
\* Only the tracked events vary their messageId and only errors carry errors;
\* the two kinds of reply to the first request come with a BigInt field as
\* well.
HostMessages ==
    {HostMessage(n, c, m, NoErrors) : n \in TrackedNames, c \in CorrelationIds, m \in InboundIds}
    \cup {HostMessage("ShowDialogResponse", c, Undefined, NoErrors) : c \in CorrelationIds}
    \cup {HostMessage("InvalidMessageError", c, Undefined, Errors(<<"Bad stuff">>)) :
            c \in CorrelationIds}
    \cup {HostMessage(NoName, Undefined, Undefined, NoErrors)}
    \cup {WithAmount(HostMessage("ShowDialogResponse", 1, Undefined, NoErrors)),
          WithAmount(HostMessage("InvalidMessageError", 1, Undefined, Errors(<<"Bad stuff">>)))}

InboundData == NonObjects \cup HostMessages

\* Messages a caller hands to sendRequest: without a messageId, or with a
\* messageId of the caller's own choice, or with a BigInt.
RequestMessage(n, m) == [name |-> n, messageId |-> m, dialogText |-> "Hi"]
RequestMessages ==
    {RequestMessage("ShowDialogRequest", m) : m \in {Undefined, MaxId}}
    \cup {WithAmount(RequestMessage("ShowDialogRequest", Undefined))}

\* What the transport does with one postMessage call.
SendOutcomes == {"ok", "throw"}

\* Listener callbacks; Throwing callbacks raise an Error when they are
\* invoked, NullThrowing callbacks raise null or undefined (throw null).
Callbacks == {"cbA"}
Throwing == {"cbB"}
NullThrowing == {"cbNil"}
\* Callbacks that call back into the instance they are subscribed to, with
\* the event name they are invoked for: a SelfRemoving callback calls the
\* unsubscribe function on() gave it, an OffCalling callback calls
\* off(name, OffTarget), a Destroying callback calls destroy().
SelfRemoving == {"cbOnce"}
OffCalling == {"cbDrop"}
OffTarget == "cbA"
Destroying == {"cbEnd"}
\* Event names callers subscribe to.
EventNames == {"Open"}

\* The debug option instances are created with, and the windows they are
\* created in: whether global.addEventListener and global.removeEventListener
\* exist.  Both are methods of EventTarget: a window has both or neither.
DebugOptions == {TRUE}
Window(hasAddEventListener, hasRemoveEventListener) ==
    [addEventListener |-> hasAddEventListener,
     removeEventListener |-> hasRemoveEventListener]
BrowserWindow == Window(TRUE, TRUE)
Environments == {BrowserWindow, Window(FALSE, FALSE)}

VARIABLES
    global,               \* the window the instances are created in
    debug,                \* this.debug
    attached,             \* the 'message' listener is bound to the window
    requestIdCounter,     \* this._requestIdCounter
    pendingRequests,      \* this._pendingRequests: key -> promise handle
    promises,             \* the promises sendRequest has returned, in order
    allocatedIds,         \* every id _nextMessageId has returned, in order
    listeners,            \* this._listeners: event name -> array of callbacks
    lastOpenMessageId,    \* this._lastOpenMessageId
    lastChangeMessageId,  \* this._lastChangeMessageId
    op,                   \* the last call and its arguments
    pre,                  \* the fields of the instance when the last call began
    settlements,          \* resolve/reject calls made by the last call
    posted,               \* messages the last call handed to postMessage
    invoked,              \* listener invocations made by the last call
    logged,               \* console lines written by the last call
    returned,             \* what the last call returned
    thrown,               \* the exception the last call let escape, if any
    peer,                 \* a second instance created in the same window
    inflight              \* the 'message' event the window is dispatching

vars == <<global, debug, attached, requestIdCounter, pendingRequests, promises, allocatedIds,
          listeners, lastOpenMessageId, lastChangeMessageId, op, pre, settlements, posted,
          invoked, logged, returned, thrown, peer, inflight>>

(***************************************************************************)
(* The instance as a record, and maps (JavaScript Map) as functions.       *)
(***************************************************************************)
EmptyMap == <<>>
MapHas(map, k) == k \in DOMAIN map
MapSet(map, k, v) == (k :> v) @@ map
MapDelete(map, k) == [x \in DOMAIN map \ {k} |-> map[x]]

Void == [kind |-> "undefined"]
NoThrow == [kind |-> "none"]
\* No event is being dispatched; an event with data that the handlers bound
\* before the second instance's have been called with, one of which settled
\* a request (settled) or none.
NoEvent == [kind |-> "none"]
Event(data, settled) == [kind |-> "event", data |-> data, settled |-> settled]

\* The instance a constructor call leaves behind.
constructor(options, window) ==
    [global |-> window,
     debug |-> options.debug,
     attached |-> window.addEventListener,
     requestIdCounter |-> 0,
     pendingRequests |-> EmptyMap,
     promises |-> <<>>,
     allocatedIds |-> <<>>,
     listeners |-> EmptyMap,
     lastOpenMessageId |-> Null,
     lastChangeMessageId |-> Null,
     settlements |-> <<>>,
     posted |-> <<>>,
     invoked |-> <<>>,
     logged |-> IF window.addEventListener THEN <<>>
                ELSE <<[level |-> "error", text |-> "addEventListener is not available"]>>,
     returned |-> Void,
     thrown |-> NoThrow]

\* The exception a call lets escape when the engine raises a TypeError.
TypeError == [kind |-> "error", name |-> "TypeError"]
\* The call that ended in instance s let an exception escape.
Raised(s) == s.thrown /= NoThrow

\* The messageOrFn argument of _log: a string, or a function that returns
\* the string or raises.
Text(text) == [isFunction |-> FALSE, text |-> text]
\* () => `${prefix} ${JSON.stringify(message)}`
Stringified(prefix, message) ==
    [isFunction |-> TRUE, text |-> prefix, raises |-> Unprintable(message)]
\* () => `Unknown event message: ${JSON.stringify(event)}`; event is the
\* MessageEvent of the window, whose data is no own property of it.
StringifiedEvent == [isFunction |-> TRUE, text |-> "Unknown event message", raises |-> FALSE]

\* _log that writes nothing at all while debug is off.
log_quietWithoutDebug(s, messageOrFn, level) ==
    IF ~s.debug THEN s
    ELSE IF messageOrFn.isFunction /\ messageOrFn.raises THEN [s EXCEPT !.thrown = TypeError]
    ELSE [s EXCEPT !.logged = Append(@, [level |-> level, text |-> messageOrFn.text])]

\* this._log(messageOrFn, level): messageOrFn is called, when it is a
\* function, after the test of debug and level; what it raises escapes.
log(s, messageOrFn, level) ==
    IF ~s.debug /\ level = "log" THEN s
    ELSE IF messageOrFn.isFunction /\ messageOrFn.raises THEN [s EXCEPT !.thrown = TypeError]
    ELSE [s EXCEPT !.logged = Append(@, [level |-> level, text |-> messageOrFn.text])]

\* _nextMessageId that hands out the lowest id no pending request has.
nextMessageId_recycle(s) ==
    LET free == CHOOSE k \in 1..(s.requestIdCounter + 1) :
                    /\ k \notin DOMAIN s.pendingRequests
                    /\ \A j \in 1..(k - 1) : j \in DOMAIN s.pendingRequests
    IN  [s EXCEPT !.requestIdCounter = free, !.allocatedIds = Append(@, free)]

\* this._nextMessageId(): the instance after ++this._requestIdCounter; the id
\* returned is the counter of the result.
nextMessageId(s) ==
    [s EXCEPT !.requestIdCounter = @ + 1, !.allocatedIds = Append(@, s.requestIdCounter + 1)]

\* A call of the resolve/reject function of promise h.  A promise takes the
\* first settlement; later calls are counted and change nothing else.  The
\* call is recorded with the pending table as it is when the call is made.
settle(s, h, how, value) ==
    [s EXCEPT !.promises[h] = [@ EXCEPT !.state = IF @ = "pending"
                                                   THEN (IF how = "resolve" THEN "fulfilled" ELSE "rejected")
                                                   ELSE @,
                                        !.calls = @ + 1],
              !.settlements = Append(@, [handle |-> h, how |-> how, value |-> value,
                                         table |-> s.pendingRequests])]

\* _toError that takes the text of the last entry of errors.
toError_lastEntry(message) ==
    [name |-> IF message.name /= NoName THEN message.name ELSE "InvalidMessageError",
     message |-> IF message.errors.defined /\ Len(message.errors.list) > 0
                    /\ message.errors.list[Len(message.errors.list)] /= ""
                 THEN message.errors.list[Len(message.errors.list)]
                 ELSE "Unknown error",
     details |-> IF message.errors.defined
                 THEN [isNull |-> FALSE, list |-> message.errors.list]
                 ELSE [isNull |-> TRUE, list |-> <<>>],
     rawMessage |-> message]

\* this._toError(message)
toError(message) ==
    [name |-> IF message.name /= NoName THEN message.name ELSE "InvalidMessageError",
     message |-> IF message.errors.defined /\ Len(message.errors.list) > 0
                    /\ message.errors.list[1] /= ""
                 THEN message.errors.list[1]
                 ELSE "Unknown error",
     details |-> IF message.errors.defined
                 THEN [isNull |-> FALSE, list |-> message.errors.list]
                 ELSE [isNull |-> TRUE, list |-> <<>>],
     rawMessage |-> message]

(***************************************************************************)
(* The listener registry: on, off.                                         *)
(***************************************************************************)
Includes(array, x) == \E i \in 1..Len(array) : array[i] = x
\* array.indexOf(x), 1-based; 0 when x is not in the array
IndexOf(array, x) ==
    IF Includes(array, x) THEN CHOOSE i \in 1..Len(array) :
                                   array[i] = x /\ \A j \in 1..(i - 1) : array[j] /= x
    ELSE 0
\* array.splice(i): everything from index i on is removed
Splice_toEnd(array, i) == SubSeq(array, 1, i - 1)

\* array.splice(i, 1)
Splice(array, i) == [j \in 1..(Len(array) - 1) |-> IF j < i THEN array[j] ELSE array[j + 1]]

GetOrEmpty(map, k) == IF MapHas(map, k) THEN map[k] ELSE <<>>

\* () => this.off(eventName, callback), the function on() returns
Unsubscriber(eventName, callback) ==
    [kind |-> "unsubscribe", eventName |-> eventName, callback |-> callback]

\* on that pushes the callback whether or not the array includes it.
on_noDedup(s, eventName, callback) ==
    LET array == GetOrEmpty(s.listeners, eventName)
    IN  [s EXCEPT !.listeners = MapSet(@, eventName, Append(array, callback)),
                  !.returned = Unsubscriber(eventName, callback)]

\* this.on(eventName, callback)
on(s, eventName, callback) ==
    LET array == GetOrEmpty(s.listeners, eventName)
        added == IF Includes(array, callback) THEN s
                 ELSE [s EXCEPT !.listeners = MapSet(@, eventName, Append(array, callback))]
    IN  [added EXCEPT !.returned = Unsubscriber(eventName, callback)]

\* this.onOpen(callback), this.onOpenPopup(callback), this.onSave(callback),
\* this.onChange(callback)
onOpen(s, callback) == on(s, "Open", callback)
onOpenPopup(s, callback) == on(s, "OpenPopup", callback)
onSave(s, callback) == on(s, "Save", callback)
onChange(s, callback) == on(s, "Change", callback)

\* this.off(eventName, callback)
off(s, eventName, callback) ==
    LET array == GetOrEmpty(s.listeners, eventName)
        index == IndexOf(array, callback)
    IN  IF index > 0
        THEN [s EXCEPT !.listeners = MapSet(@, eventName, Splice(array, index))]
        ELSE s

\* An unsubscribe function that does nothing.
unsubscribe_nothing(s, unsubscriber) == s

\* A call of an unsubscribe function that on() returned.
unsubscribe(s, unsubscriber) == off(s, unsubscriber.eventName, unsubscriber.callback)

(***************************************************************************)
(* Teardown: destroy.                                                      *)
(***************************************************************************)
SDKDestroyed == [name |-> "SDKDestroyed", message |-> "SDK destroyed"]

\* The keys of a map in iteration (insertion) order.  Keys are inserted in
\* increasing order, as every key is a freshly allocated id.
RECURSIVE KeysInOrder(_)
KeysInOrder(keys) ==
    IF keys = {} THEN <<>>
    ELSE LET first == CHOOSE k \in keys : \A j \in keys : k <= j
         IN  <<first>> \o KeysInOrder(keys \ {first})

\* rejectAll that rejects the first pending request only.
rejectAll_onlyFirst(s, keys, k) ==
    IF k > Len(keys) THEN s
    ELSE settle(s, s.pendingRequests[keys[k]], "reject", SDKDestroyed)

\* this._pendingRequests.forEach(pending => pending.reject(err)) from index k on
RECURSIVE rejectAll(_, _, _)
rejectAll(s, keys, k) ==
    IF k > Len(keys) THEN s
    ELSE rejectAll(settle(s, s.pendingRequests[keys[k]], "reject", SDKDestroyed), keys, k + 1)

\* destroy that leaves the listener registry as it is.
destroy_keepListeners(s) ==
    LET s2 == rejectAll(s, KeysInOrder(DOMAIN s.pendingRequests), 1)
        s3 == [s2 EXCEPT !.pendingRequests = EmptyMap]
        s4 == [s3 EXCEPT !.attached = IF s3.global.removeEventListener THEN FALSE ELSE @]
    IN  log(s4, Text("SDK destroyed"), "log")

\* destroy that leaves _handleMessage bound to the window.
destroy_keepBinding(s) ==
    LET s1 == [s EXCEPT !.listeners = EmptyMap]
        s2 == rejectAll(s1, KeysInOrder(DOMAIN s1.pendingRequests), 1)
        s3 == [s2 EXCEPT !.pendingRequests = EmptyMap]
    IN  log(s3, Text("SDK destroyed"), "log")

\* destroy that also starts the id counter again.
destroy_resetCounter(s) ==
    LET s1 == [s EXCEPT !.listeners = EmptyMap]
        s2 == rejectAll(s1, KeysInOrder(DOMAIN s1.pendingRequests), 1)
        s3 == [s2 EXCEPT !.pendingRequests = EmptyMap, !.requestIdCounter = 0]
        s4 == [s3 EXCEPT !.attached = IF s3.global.removeEventListener THEN FALSE ELSE @]
    IN  log(s4, Text("SDK destroyed"), "log")

\* destroy that clears the pending table before it walks it.
destroy_clearsFirst(s) ==
    LET s1 == [s EXCEPT !.listeners = EmptyMap]
        s2 == [s1 EXCEPT !.pendingRequests = EmptyMap]
        s3 == rejectAll(s2, KeysInOrder(DOMAIN s2.pendingRequests), 1)
        s4 == [s3 EXCEPT !.attached = IF s3.global.removeEventListener THEN FALSE ELSE @]
    IN  log(s4, Text("SDK destroyed"), "log")

\* this.destroy()
destroy(s) ==
    LET s1 == [s EXCEPT !.listeners = EmptyMap]
        s2 == rejectAll(s1, KeysInOrder(DOMAIN s1.pendingRequests), 1)
        s3 == [s2 EXCEPT !.pendingRequests = EmptyMap]
        s4 == [s3 EXCEPT !.attached = IF s3.global.removeEventListener THEN FALSE ELSE @]
    IN  log(s4, Text("SDK destroyed"), "log")

(***************************************************************************)
(* Inbound: _handleMessage.                                                *)
(***************************************************************************)
\* One listener call inside the try/catch of the dispatch loop, with what
\* the body of the listener does to the instance.  The catch block reads
\* error.message: of an Error it is a text; of null or undefined the read
\* raises a TypeError, which escapes the catch block before _log is called.
callListener(s, name, listener, message) ==
    LET called == [s EXCEPT !.invoked = Append(@, [listener |-> listener, message |-> message])]
    IN  IF listener \in Throwing
        THEN log(called, Text("Listener error for " \o name), "warn")
        ELSE IF listener \in NullThrowing
        THEN [called EXCEPT !.thrown = TypeError]
        ELSE IF listener \in SelfRemoving
        THEN [unsubscribe(called, Unsubscriber(name, listener)) EXCEPT !.returned = s.returned]
        ELSE IF listener \in OffCalling
        THEN [off(called, name, OffTarget) EXCEPT !.returned = s.returned]
        ELSE IF listener \in Destroying
        THEN [destroy(called) EXCEPT !.returned = s.returned]
        ELSE called

\* The array the dispatch loop walks, after a listener ran and left instance
\* s: it is the array object the Map held when the loop began.  off() splices
\* that object, which the Map still holds; destroy() clears the Map and
\* leaves the object as it is.
walked(s, name, array) ==
    IF MapHas(s.listeners, name) THEN s.listeners[name] ELSE array

\* listeners.forEach(listener => ...) from index k on.
RECURSIVE forEach(_, _, _, _, _)
\* Array.prototype.forEach visits index k of the array as it is when k is
\* reached; no listener adds to the array, so it ends at the current length.
\* What the callback lets escape ends the loop.
forEach(s, name, array, k, message) ==
    IF k > Len(array) THEN s
    ELSE LET after == callListener(s, name, array[k], message)
         IN  IF Raised(after) THEN after
             ELSE forEach(after, name, walked(after, name, array), k + 1, message)

\* settlePending without the delete: the entry stays in the table.
settlePending_keepEntry(s, message) ==
    LET pending == s.pendingRequests[message.correlationId]
    IN  IF message.name = "InvalidMessageError"
        THEN settle(s, pending, "reject", toError(message))
        ELSE settle(s, pending, "resolve", message)

\* The branch of _handleMessage taken when correlationId is a key of the
\* pending table: the entry is deleted, then its promise is settled.
settlePending(s, message) ==
    LET pending == s.pendingRequests[message.correlationId]
        removed == [s EXCEPT !.pendingRequests = MapDelete(@, message.correlationId)]
    IN  IF message.name = "InvalidMessageError"
        THEN settle(removed, pending, "reject", toError(message))
        ELSE settle(removed, pending, "resolve", message)

\* The update of the last Open/Change message id.
trackLastIds(s, message) ==
    IF message.name = "Open" THEN [s EXCEPT !.lastOpenMessageId = message.messageId]
    ELSE IF message.name = "Change" THEN [s EXCEPT !.lastChangeMessageId = message.messageId]
    ELSE s

\* The dispatch of an uncorrelated message to the listeners of its name.
dispatch(s, message) ==
    IF message.name /= NoName /\ MapHas(s.listeners, message.name)
    THEN forEach(s, message.name, s.listeners[message.name], 1, message)
    ELSE s

\* _handleMessage without the test for non-objects: destructuring null or
\* undefined raises a TypeError.
handleMessage_noObjectTest(s, data) ==
    IF ~data.isObject THEN [s EXCEPT !.thrown = TypeError]
    ELSE LET s1 == log(s, Stringified("Host ->", data), "log")
         IN  IF Raised(s1) THEN s1
             ELSE IF MapHas(s1.pendingRequests, data.correlationId)
             THEN settlePending(s1, data)
             ELSE dispatch(trackLastIds(s1, data), data)

\* _handleMessage without the return that ends the correlated branch.
handleMessage_fallThrough(s, data) ==
    IF ~data.isObject THEN log(s, StringifiedEvent, "log")
    ELSE LET s1 == log(s, Stringified("Host ->", data), "log")
             s2 == IF MapHas(s1.pendingRequests, data.correlationId)
                   THEN settlePending(s1, data)
                   ELSE s1
         IN  IF Raised(s1) THEN s1 ELSE dispatch(trackLastIds(s2, data), data)

\* _handleMessage that hands a message whose correlationId is no key of the
\* pending table to the oldest pending request.
handleMessage_settlesOldest(s, data) ==
    IF ~data.isObject THEN log(s, StringifiedEvent, "log")
    ELSE LET s1 == log(s, Stringified("Host ->", data), "log")
             keys == DOMAIN s1.pendingRequests
             oldest == CHOOSE k \in keys : \A j \in keys : k <= j
         IN  IF Raised(s1) THEN s1
             ELSE IF MapHas(s1.pendingRequests, data.correlationId)
             THEN settlePending(s1, data)
             ELSE IF data.correlationId /= Undefined /\ keys /= {}
             THEN settlePending(s1, [data EXCEPT !.correlationId = oldest])
             ELSE dispatch(trackLastIds(s1, data), data)

\* this._handleMessage(event), event.data = data
handleMessage(s, data) ==
    IF ~data.isObject THEN log(s, StringifiedEvent, "log")
    ELSE LET s1 == log(s, Stringified("Host ->", data), "log")
         IN  IF Raised(s1) THEN s1
             ELSE IF MapHas(s1.pendingRequests, data.correlationId)
             THEN settlePending(s1, data)
             ELSE dispatch(trackLastIds(s1, data), data)

(***************************************************************************)
(* Outbound: sendRequest, sendMessage.                                     *)
(***************************************************************************)
\* stamp that keeps a messageId the caller supplied.
stamp_keepCallerId(message, messageId) ==
    IF "messageId" \in DOMAIN message /\ message.messageId /= Undefined THEN message
    ELSE [messageId |-> messageId] @@ message

\* message.messageId = messageId, whether the message had the field or not
stamp(message, messageId) == [messageId |-> messageId] @@ message

\* A set() that drops the entries the table held.
registerPending_replaceTable(s, messageId, h) ==
    [s EXCEPT !.pendingRequests = MapSet(EmptyMap, messageId, h)]

\* this._pendingRequests.set(messageId, {resolve, reject}) of promise h
registerPending(s, messageId, h) ==
    [s EXCEPT !.pendingRequests = MapSet(@, messageId, h)]

\* message.name || 'unknown'
nameOrUnknown(message) == IF message.name /= NoName THEN message.name ELSE "unknown"

\* The catch block without the delete.
failedSend_keepEntry(s, message, messageId, h, error) ==
    settle(log(s, Text("postMessage error for " \o nameOrUnknown(message)), "warn"),
           h, "reject", error)

\* The catch block of sendRequest, entered with what the try block raised.
failedSend(s, message, messageId, h, error) ==
    LET warned == log(s, Text("postMessage error for " \o nameOrUnknown(message)), "warn")
        removed == [warned EXCEPT !.pendingRequests = MapDelete(@, messageId)]
    IN  settle(removed, h, "reject", error)

\* target.postMessage(message, '*') returning normally
postMessage(s, message) == [s EXCEPT !.posted = Append(@, message)]

\* The reply of a host that answers a message while postMessage is still
\* running: a message named Open that carries the id of the message, alone
\* ("echo") or with a field JSON.stringify cannot print ("echoAmount").
EchoOutcomes == {"echo", "echoAmount"}
Echo(message) == HostMessage("Open", message.messageId, 1, NoErrors)
EchoReply(outcome, message) ==
    IF outcome = "echoAmount" THEN WithAmount(Echo(message)) ELSE Echo(message)

\* target.postMessage(message, '*') during which the window hands the host's
\* reply to _handleMessage, if that is bound; what _handleMessage raises is
\* raised by postMessage
echoedPostMessage(s, message, reply) ==
    LET sent == postMessage(s, message)
    IN  IF sent.attached THEN handleMessage(sent, reply) ELSE sent

\* The try statement of sendRequest around a postMessage that hands the reply
\* to _handleMessage: what that raises is caught like a failure of the send.
echoedSend(s, message, reply, messageId, h) ==
    LET echoed == echoedPostMessage(s, message, reply)
    IN  IF Raised(echoed)
        THEN failedSend([echoed EXCEPT !.thrown = NoThrow], message, messageId, h,
                        echoed.thrown)
        ELSE echoed

\* this.sendRequest(message); outcome is what postMessage does: it returns
\* ("ok"), raises ("throw"), or hands the reply to _handleMessage before it
\* returns (EchoOutcomes)
sendRequest(s, message, outcome) ==
    LET s1 == nextMessageId(s)
        messageId == s1.requestIdCounter
        stamped == stamp(message, messageId)
        s2 == log(s1, Stringified("SDK ->", stamped), "log")
        h == Len(s2.promises) + 1
        s3 == [s2 EXCEPT !.promises = Append(@, [state |-> "pending", calls |-> 0,
                                                 messageId |-> messageId])]
        s4 == registerPending(s3, messageId, h)
        s5 == IF outcome = "throw"
              THEN failedSend(s4, stamped, messageId, h, TransportError)
              ELSE IF outcome \in EchoOutcomes
              THEN echoedSend(s4, stamped, EchoReply(outcome, stamped), messageId, h)
              ELSE postMessage(s4, stamped)
    IN  IF Raised(s2) THEN s2
        ELSE [s5 EXCEPT !.returned = [kind |-> "promise", handle |-> h]]

\* sendMessage that reports a failed send at the default log level.
sendMessage_logLevel(s, message, outcome) ==
    LET s1 == log(s, Stringified("SDK ->", message), "log")
    IN  IF Raised(s1) THEN s1
        ELSE IF outcome = "throw"
        THEN log(s1, Text("postMessage error for " \o nameOrUnknown(message)), "log")
        ELSE [s1 EXCEPT !.posted = Append(@, message)]

\* this.selectGoodFolder()
selectGoodFolder(s, outcome) ==
    sendRequest(s, [name |-> "SelectGoodFolderRequest"], outcome)

\* this.showDialog(text, buttons); an argument is a record that tells whether
\* it is given (not undefined) and with what value.  The default of buttons
\* is one button named Ok whose caption is the Cyrillic letters U+041E U+041A.
showDialog(s, text, buttons, outcome) ==
    sendRequest(s, [name |-> "ShowDialogRequest", dialogText |-> text,
                    buttons |-> IF buttons.given THEN buttons.value
                                ELSE <<[name |-> "Ok", caption |-> "U+041E U+041A"]>>],
                outcome)

\* this.navigateTo(path, target)
navigateTo(s, path, target, outcome) ==
    sendRequest(s, [name |-> "NavigateRequest", path |-> path,
                    target |-> IF target.given THEN target.value ELSE "blank"],
                outcome)

\* this.update(updateState)
update(s, updateState, outcome) ==
    sendRequest(s, [name |-> "UpdateRequest", updateState |-> updateState], outcome)

\* this.showPopup(popupName, popupParameters)
showPopup(s, popupName, popupParameters, outcome) ==
    LET base == [name |-> "ShowPopupRequest", popupName |-> popupName]
        message == IF popupParameters.given
                   THEN base @@ [popupParameters |-> popupParameters.value]
                   ELSE base
    IN  sendRequest(s, message, outcome)

\* this.sendMessage(message); what _log lets escape ends the call before
\* postMessage is called
sendMessage(s, message, outcome) ==
    LET s1 == log(s, Stringified("SDK ->", message), "log")
    IN  IF Raised(s1) THEN s1
        ELSE IF outcome = "throw"
        THEN log(s1, Text("postMessage error for " \o nameOrUnknown(message)), "warn")
        ELSE postMessage(s1, message)

(***************************************************************************)
(* Implicit correlation and the reply helpers.                             *)
(***************************************************************************)
\* this._getOpenMessageId(openMessageId)
getOpenMessageId(s, openMessageId) ==
    IF openMessageId /= Undefined /\ openMessageId /= Null THEN openMessageId
    ELSE IF Truthy(s.lastOpenMessageId) THEN s.lastOpenMessageId ELSE Null

\* this._getChangeMessageId(changeMessageId)
getChangeMessageId(s, changeMessageId) ==
    IF changeMessageId /= Undefined /\ changeMessageId /= Null THEN changeMessageId
    ELSE IF Truthy(s.lastChangeMessageId) THEN s.lastChangeMessageId ELSE Null

ReturnNull == [kind |-> "null"]
ReturnMessage(message) == [kind |-> "message", message |-> message]
\* return value, reached when the call before it let nothing escape.
returning(s, value) == IF Raised(s) THEN s ELSE [s EXCEPT !.returned = value]

\* openFeedback that stamps its message with a fresh messageId.
openFeedback_takesId(s, openMessageId, outcome) ==
    LET resolvedId == getOpenMessageId(s, openMessageId)
        s1 == nextMessageId(s)
        message == [name |-> "OpenFeedback", messageId |-> s1.requestIdCounter,
                    correlationId |-> resolvedId]
    IN  IF resolvedId = Null
        THEN [log(s, Text("OpenFeedback not sent: openMessageId is missing"), "warn")
                EXCEPT !.returned = ReturnNull]
        ELSE returning(sendMessage(s1, message, outcome), ReturnMessage(message))

\* this.openFeedback(openMessageId)
openFeedback(s, openMessageId, outcome) ==
    LET resolvedId == getOpenMessageId(s, openMessageId)
        message == [name |-> "OpenFeedback", correlationId |-> resolvedId]
    IN  IF resolvedId = Null
        THEN [log(s, Text("OpenFeedback not sent: openMessageId is missing"), "warn")
                EXCEPT !.returned = ReturnNull]
        ELSE returning(sendMessage(s, message, outcome), ReturnMessage(message))

\* setDirty that takes its messageId before it looks for the Open id.
setDirty_takesIdFirst(s, openMessageId, outcome) ==
    LET resolvedId == getOpenMessageId(s, openMessageId)
        s1 == nextMessageId(s)
        message == [name |-> "SetDirty", messageId |-> s1.requestIdCounter,
                    openMessageId |-> resolvedId]
    IN  IF resolvedId = Null
        THEN [log(s1, Text("SetDirty not sent: openMessageId is missing"), "warn")
                EXCEPT !.returned = ReturnNull]
        ELSE returning(sendMessage(s1, message, outcome), ReturnMessage(message))

\* this.setDirty(openMessageId)
setDirty(s, openMessageId, outcome) ==
    LET resolvedId == getOpenMessageId(s, openMessageId)
        s1 == nextMessageId(s)
        message == [name |-> "SetDirty", messageId |-> s1.requestIdCounter,
                    openMessageId |-> resolvedId]
    IN  IF resolvedId = Null
        THEN [log(s, Text("SetDirty not sent: openMessageId is missing"), "warn")
                EXCEPT !.returned = ReturnNull]
        ELSE returning(sendMessage(s1, message, outcome), ReturnMessage(message))

\* this.clearDirty()
clearDirty(s, outcome) ==
    LET s1 == nextMessageId(s)
        message == [name |-> "ClearDirty", messageId |-> s1.requestIdCounter]
    IN  returning(sendMessage(s1, message, outcome), ReturnMessage(message))

\* The valid argument of validationFeedback (undefined, true or false) and
\* its messageText argument (undefined or a text), written as strings.
ValidArgs == {"undefined", "true"}
UndefinedText == "undefined"
TextArgs == {UndefinedText}

\* validationFeedback that falls back to the last Open id.
validationFeedback_usesOpenId(s, valid, messageText, changeMessageId, outcome) ==
    LET resolvedId == getOpenMessageId(s, changeMessageId)
        s1 == nextMessageId(s)
        message == [name |-> "ValidationFeedback", messageId |-> s1.requestIdCounter,
                    correlationId |-> resolvedId,
                    valid |-> IF valid = "undefined" THEN FALSE ELSE valid = "true",
                    message |-> IF messageText /= UndefinedText THEN messageText
                                ELSE "Invalid data"]
    IN  IF resolvedId = Null
        THEN [log(s, Text("ValidationFeedback not sent: changeMessageId is missing"), "warn")
                EXCEPT !.returned = ReturnNull]
        ELSE returning(sendMessage(s1, message, outcome), ReturnMessage(message))

\* this.validationFeedback(valid, messageText, changeMessageId)
validationFeedback(s, valid, messageText, changeMessageId, outcome) ==
    LET resolvedId == getChangeMessageId(s, changeMessageId)
        s1 == nextMessageId(s)
        message == [name |-> "ValidationFeedback", messageId |-> s1.requestIdCounter,
                    correlationId |-> resolvedId,
                    valid |-> IF valid = "undefined" THEN FALSE ELSE valid = "true",
                    message |-> IF messageText /= UndefinedText THEN messageText
                                ELSE "Invalid data"]
    IN  IF resolvedId = Null
        THEN [log(s, Text("ValidationFeedback not sent: changeMessageId is missing"), "warn")
                EXCEPT !.returned = ReturnNull]
        ELSE returning(sendMessage(s1, message, outcome), ReturnMessage(message))

\* The popupResponse argument of closePopup: undefined, a response that
\* JSON.stringify prints or one that it cannot print.
UndefinedResponse == "undefined"
ResponseArgs == {"response", BigInt}

\* this.closePopup(popupResponse)
closePopup(s, popupResponse, outcome) ==
    LET s1 == nextMessageId(s)
        base == [name |-> "ClosePopup", messageId |-> s1.requestIdCounter]
        message == IF popupResponse /= UndefinedResponse
                   THEN base @@ [popupResponse |-> popupResponse]
                   ELSE base
    IN  returning(sendMessage(s1, message, outcome), ReturnMessage(message))

(***************************************************************************)
(* The state machine: one action per call.                                 *)
(***************************************************************************)
\* The instance as the variables hold it.
Cur ==
    [global |-> global, debug |-> debug, attached |-> attached,
     requestIdCounter |-> requestIdCounter,
     pendingRequests |-> pendingRequests, promises |-> promises,
     allocatedIds |-> allocatedIds, listeners |-> listeners,
     lastOpenMessageId |-> lastOpenMessageId, lastChangeMessageId |-> lastChangeMessageId,
     settlements |-> settlements, posted |-> posted, invoked |-> invoked,
     logged |-> logged, returned |-> returned, thrown |-> thrown]

\* What the transport does with the postMessage call of a call that is to
\* send message: the call reaches postMessage, or none at all ("none") when
\* its _log raises.
OutcomesFor(message, outcomes) ==
    IF debug /\ Unprintable(message) THEN {"none"} ELSE outcomes

\* The instance at the start of a call: nothing done to the outside yet.
Begin ==
    [Cur EXCEPT !.settlements = <<>>, !.posted = <<>>, !.invoked = <<>>,
                !.logged = <<>>, !.returned = Void, !.thrown = NoThrow]

\* The fields of instance s.
Fields(s) ==
    [attached |-> s.attached, requestIdCounter |-> s.requestIdCounter,
     pendingRequests |-> s.pendingRequests, promises |-> s.promises,
     listeners |-> s.listeners, lastOpenMessageId |-> s.lastOpenMessageId,
     lastChangeMessageId |-> s.lastChangeMessageId]

\* The call named by call, begun in the current instance, ended in instance s.
Commit(s, call) ==
    /\ s.requestIdCounter <= MaxId
    /\ pre' = Fields(Cur)
    /\ global' = s.global
    /\ debug' = s.debug
    /\ attached' = s.attached
    /\ requestIdCounter' = s.requestIdCounter
    /\ pendingRequests' = s.pendingRequests
    /\ promises' = s.promises
    /\ allocatedIds' = s.allocatedIds
    /\ listeners' = s.listeners
    /\ lastOpenMessageId' = s.lastOpenMessageId
    /\ lastChangeMessageId' = s.lastChangeMessageId
    /\ settlements' = s.settlements
    /\ posted' = s.posted
    /\ invoked' = s.invoked
    /\ logged' = s.logged
    /\ returned' = s.returned
    /\ thrown' = s.thrown
    /\ op' = call
    /\ peer' = peer
    /\ inflight' = inflight

\* The variables hold the instance a constructor call with these options
\* leaves behind.
Created(options, window) ==
    LET s == constructor(options, window)
    IN  /\ global = s.global
        /\ debug = s.debug
        /\ attached = s.attached
        /\ requestIdCounter = s.requestIdCounter
        /\ pendingRequests = s.pendingRequests
        /\ promises = s.promises
        /\ allocatedIds = s.allocatedIds
        /\ listeners = s.listeners
        /\ lastOpenMessageId = s.lastOpenMessageId
        /\ lastChangeMessageId = s.lastChangeMessageId
        /\ settlements = s.settlements
        /\ posted = s.posted
        /\ invoked = s.invoked
        /\ logged = s.logged
        /\ returned = s.returned
        /\ thrown = s.thrown
        /\ op = [name |-> "constructor"]
        /\ pre = Fields(s)
        /\ peer = constructor(options, window)
        /\ inflight = NoEvent

Init ==
    \E dbg \in DebugOptions, window \in Environments :
        Created([debug |-> dbg], window)

\* The window delivers a 'message' event to the bound handler.
HandleMessage ==
    /\ attached
    /\ \E data \in InboundData :
        Commit(handleMessage(Begin, data), [name |-> "handleMessage", data |-> data])

\* Data of the message events the window gets while nothing is bound to it:
\* an Open with a messageId, with and without a correlationId, or no object.
\* The window gets a 'message' event while _handleMessage is not bound to it:
\* no code of the instance runs.
Undelivered ==
    /\ ~attached
    /\ \E data \in NonObjects
                    \cup {HostMessage("Open", c, 1, NoErrors) : c \in {Undefined, MaxId}} :
        Commit(Begin, [name |-> "message", data |-> data])

SendRequest ==
    \E message \in RequestMessages :
      \E outcome \in OutcomesFor(message, SendOutcomes) :
        Commit(sendRequest(Begin, message, outcome),
               [name |-> "sendRequest", message |-> message, outcome |-> outcome])

\* Messages a caller hands to sendMessage: with a name, or without a name
\* and with a BigInt.
FireMessages ==
    {[name |-> "UpdateRequest", updateState |-> "failed"],
     WithAmount([name |-> NoName, updateState |-> "failed"])}

SendMessage ==
    \E message \in FireMessages :
      \E outcome \in OutcomesFor(message, SendOutcomes) :
        Commit(sendMessage(Begin, message, outcome),
               [name |-> "sendMessage", message |-> message, outcome |-> outcome])

\* Explicit ids a caller passes to a reply helper.
ExplicitIds == {Undefined, 2}

OpenFeedback ==
    \E id \in ExplicitIds, outcome \in SendOutcomes :
        Commit(openFeedback(Begin, id, outcome),
               [name |-> "openFeedback", id |-> id, outcome |-> outcome])

SetDirty ==
    \E id \in ExplicitIds, outcome \in SendOutcomes :
        Commit(setDirty(Begin, id, outcome),
               [name |-> "setDirty", id |-> id, outcome |-> outcome])

ClearDirty ==
    \E outcome \in SendOutcomes :
        Commit(clearDirty(Begin, outcome), [name |-> "clearDirty", outcome |-> outcome])

ValidationFeedback ==
    \E valid \in ValidArgs, text \in TextArgs, id \in ExplicitIds, outcome \in SendOutcomes :
        Commit(validationFeedback(Begin, valid, text, id, outcome),
               [name |-> "validationFeedback", valid |-> valid, text |-> text,
                id |-> id, outcome |-> outcome])

ClosePopup ==
    \E response \in ResponseArgs :
      \E outcome \in OutcomesFor([popupResponse |-> response], SendOutcomes) :
        Commit(closePopup(Begin, response, outcome),
               [name |-> "closePopup", response |-> response, outcome |-> outcome])

On ==
    \E eventName \in EventNames, callback \in Callbacks :
        Commit(on(Begin, eventName, callback),
               [name |-> "on", eventName |-> eventName, callback |-> callback])

Off ==
    \E eventName \in EventNames, callback \in Callbacks :
        Commit(off(Begin, eventName, callback),
               [name |-> "off", eventName |-> eventName, callback |-> callback])

Destroy ==
    Commit(destroy(Begin), [name |-> "destroy"])

Next ==
    \/ HandleMessage
    \/ Undelivered
    \/ SendRequest
    \/ SendMessage
    \/ OpenFeedback
    \/ SetDirty
    \/ ClearDirty
    \/ ValidationFeedback
    \/ ClosePopup
    \/ On
    \/ Off
    \/ Destroy

Spec == Init /\ [][Next]_vars

(***************************************************************************)
(* The registry machine: the same instance driven with more subscriptions  *)
(* (three callbacks for one name, the four on<Event> helpers, the          *)
(* unsubscribe functions on() returns) and fewer kinds of request.         *)
(***************************************************************************)
\* Subscriptions are taken while the registry has at most MaxNames names.
MaxNames == 2

\* Callbacks subscribed with on(); cbB raises an Error when it is invoked.
RegistryCallbacks == {"cbA", "cbB", "cbC"}
\* The name the callbacks are subscribed to with on().
RegistryNames == {"Open"}
\* The helpers onOpen, onOpenPopup, onSave and onChange, and their callback.
OnHelpers == {"onOpen", "onOpenPopup", "onSave", "onChange"}
HelperCallbacks == {"cbA"}

\* The call of helper with callback.
onHelper(s, helper, callback) ==
    CASE helper = "onOpen" -> onOpen(s, callback)
      [] helper = "onOpenPopup" -> onOpenPopup(s, callback)
      [] helper = "onSave" -> onSave(s, callback)
      [] helper = "onChange" -> onChange(s, callback)

\* Inbound data of the registry machine: events of the subscribed names and
\* of a name nobody subscribes to, and an Open that carries a correlationId.
RegistryData ==
    NonObjects
    \cup {HostMessage(n, Undefined, Undefined, NoErrors) :
            n \in {"Open", "OpenPopup", "Save", "Change", "Other"}}
    \cup {HostMessage("Open", 1, Undefined, NoErrors),
          WithAmount(HostMessage("Open", Undefined, Undefined, NoErrors))}

RegistryInit == Init /\ global = BrowserWindow

RegistryHandleMessage ==
    \E data \in RegistryData :
        Commit(handleMessage(Begin, data), [name |-> "handleMessage", data |-> data])

RegistryRequest ==
    \E message \in {RequestMessage("ShowDialogRequest", Undefined)} :
        Commit(sendRequest(Begin, message, "ok"),
               [name |-> "sendRequest", message |-> message, outcome |-> "ok"])

\* A subscribing call that ends in instance s is taken.
Subscribed(s, call) ==
    /\ Cardinality(DOMAIN s.listeners) <= MaxNames
    /\ Commit(s, call)

RegistryOn ==
    \E eventName \in RegistryNames, callback \in RegistryCallbacks :
        Subscribed(on(Begin, eventName, callback),
                   [name |-> "on", eventName |-> eventName, callback |-> callback])

RegistryOnHelper ==
    \E helper \in OnHelpers, callback \in HelperCallbacks :
        Subscribed(onHelper(Begin, helper, callback),
                   [name |-> helper, callback |-> callback])

RegistryOff ==
    \E eventName \in RegistryNames, callback \in RegistryCallbacks :
        Commit(off(Begin, eventName, callback),
               [name |-> "off", eventName |-> eventName, callback |-> callback])

\* The caller calls the unsubscribe function the last call returned.
Unsubscribe ==
    /\ returned.kind = "unsubscribe"
    /\ Commit(unsubscribe(Begin, returned),
              [name |-> "unsubscribe", eventName |-> returned.eventName,
               callback |-> returned.callback])

RegistryNext ==
    \/ RegistryHandleMessage
    \/ RegistryRequest
    \/ RegistryOn
    \/ RegistryOnHelper
    \/ RegistryOff
    \/ Unsubscribe

RegistrySpec == RegistryInit /\ [][RegistryNext]_vars

(***************************************************************************)
(* The reply machine: the instance driven with Open and Change messages    *)
(* whose messageId may be absent or zero, with the id accessors and with   *)
(* the reply helpers called with and without an explicit id.               *)
(***************************************************************************)
\* Message ids of the Open and of the Change messages of the reply machine.
OpenIds == {Undefined, 0, 1, 2}
ChangeIds == {Undefined, 0, 1}
\* Explicit ids handed to the accessors and helpers: none (undefined, null),
\* zero, or an id no message has carried.
ReplyIds == {Undefined, Null, 0, 7}

ReplyData ==
    {HostMessage("Open", c, m, NoErrors) : c \in {Undefined, 1}, m \in OpenIds}
    \cup {HostMessage("Change", Undefined, m, NoErrors) : m \in ChangeIds}
    \cup {HostMessage("Save", Undefined, 1, NoErrors)}
    \cup {WithAmount(HostMessage(n, Undefined, 1, NoErrors)) : n \in TrackedNames}

\* What an accessor call returns.
ReturnId(id) == [kind |-> "id", value |-> id]

ReplyInit == Init /\ global = BrowserWindow

ReplyHandleMessage ==
    \E data \in ReplyData :
        Commit(handleMessage(Begin, data), [name |-> "handleMessage", data |-> data])

GetOpenMessageId ==
    \E id \in ReplyIds :
        Commit([Begin EXCEPT !.returned = ReturnId(getOpenMessageId(Begin, id))],
               [name |-> "_getOpenMessageId", id |-> id])

GetChangeMessageId ==
    \E id \in ReplyIds :
        Commit([Begin EXCEPT !.returned = ReturnId(getChangeMessageId(Begin, id))],
               [name |-> "_getChangeMessageId", id |-> id])

ReplyOpenFeedback ==
    \E id \in ReplyIds :
        Commit(openFeedback(Begin, id, "ok"),
               [name |-> "openFeedback", id |-> id, outcome |-> "ok"])

ReplySetDirty ==
    \E id \in ReplyIds :
        Commit(setDirty(Begin, id, "ok"),
               [name |-> "setDirty", id |-> id, outcome |-> "ok"])

ReplyValidationFeedback ==
    \E id \in ReplyIds :
        Commit(validationFeedback(Begin, "true", UndefinedText, id, "ok"),
               [name |-> "validationFeedback", valid |-> "true", text |-> UndefinedText,
                id |-> id, outcome |-> "ok"])

ReplyNext ==
    \/ ReplyHandleMessage
    \/ RegistryRequest
    \/ GetOpenMessageId
    \/ GetChangeMessageId
    \/ ReplyOpenFeedback
    \/ ReplySetDirty
    \/ ReplyValidationFeedback
    \/ On

ReplySpec == ReplyInit /\ [][ReplyNext]_vars

(***************************************************************************)
(* The wire machine: the instance, created with debug on or off, driven    *)
(* with inbound data of every shape (non-objects, error replies with and   *)
(* without error entries) and with a transport that may answer a request   *)
(* before postMessage returns.                                             *)
(***************************************************************************)
\* event.data that is not an object: null, undefined, a number or a string.
WireNonObjects == {[isObject |-> FALSE, kind |-> k] : k \in {"null", "undefined", "primitive"}}
\* The errors field of an error reply: absent, empty, with an entry that has
\* no error text, with one entry, with two.
WireErrors ==
    {NoErrors, Errors(<<>>), Errors(<<"", "Second">>), Errors(<<"Bad payload">>),
     Errors(<<"Bad payload", "Second">>)}

WireData ==
    WireNonObjects
    \cup {HostMessage("InvalidMessageError", 1, Undefined, e) : e \in WireErrors}
    \cup {HostMessage("Open", c, 1, NoErrors) : c \in {Undefined, 1}}
    \cup {WithAmount(HostMessage("Open", c, 1, NoErrors)) : c \in {Undefined, 1}}

WireOutcomes == {"ok", "throw"} \cup EchoOutcomes

WireInit == \E dbg \in BOOLEAN : Created([debug |-> dbg], BrowserWindow)

WireHandleMessage ==
    /\ attached
    /\ \E data \in WireData :
        Commit(handleMessage(Begin, data), [name |-> "handleMessage", data |-> data])

WireSendRequest ==
    \E message \in {RequestMessage("ShowDialogRequest", Undefined),
                    WithAmount(RequestMessage(NoName, Undefined))} :
      \E outcome \in OutcomesFor(message, WireOutcomes) :
        Commit(sendRequest(Begin, message, outcome),
               [name |-> "sendRequest", message |-> message, outcome |-> outcome])

WireOn ==
    \E eventName \in EventNames, callback \in Callbacks \cup Throwing \cup NullThrowing :
        Commit(on(Begin, eventName, callback),
               [name |-> "on", eventName |-> eventName, callback |-> callback])

WireOpenFeedback ==
    Commit(openFeedback(Begin, Undefined, "ok"),
           [name |-> "openFeedback", id |-> Undefined, outcome |-> "ok"])

WireNext ==
    \/ WireHandleMessage
    \/ WireSendRequest
    \/ SendMessage
    \/ WireOn
    \/ WireOpenFeedback
    \/ Destroy

WireSpec == WireInit /\ [][WireNext]_vars

(***************************************************************************)
(* The pair machine: two instances made by WidgetSDK.create in one window. *)
(* The variables hold the first; peer holds the second, with what the last *)
(* call did to the outside left out.  A call is made on one of the two.    *)
(***************************************************************************)
\* Ids each instance of the pair may have taken from its counter.
MaxPairId == 1

\* Instance s at the start of a call, and as it is kept after one.
Quiet(s) ==
    [s EXCEPT !.settlements = <<>>, !.posted = <<>>, !.invoked = <<>>,
              !.logged = <<>>, !.returned = Void, !.thrown = NoThrow]

\* A call on the second instance with a counter shared by the instances.
CommitPeer_sharedCounter(p, call) ==
    /\ p.requestIdCounter <= MaxId
    /\ peer' = Quiet(p)
    /\ pre' = Fields(Cur)
    /\ op' = [name |-> "peer", call |-> call]
    /\ requestIdCounter' = p.requestIdCounter
    /\ settlements' = <<>>
    /\ posted' = <<>>
    /\ invoked' = <<>>
    /\ logged' = <<>>
    /\ returned' = Void
    /\ thrown' = NoThrow
    /\ UNCHANGED <<inflight, global, debug, attached, pendingRequests, promises, allocatedIds,
                   listeners, lastOpenMessageId, lastChangeMessageId>>

\* The call named by call, made on the second instance, ended in instance p.
CommitPeer(p, call) ==
    /\ p.requestIdCounter <= MaxId
    /\ peer' = Quiet(p)
    /\ pre' = Fields(Cur)
    /\ op' = [name |-> "peer", call |-> call]
    /\ settlements' = <<>>
    /\ posted' = <<>>
    /\ invoked' = <<>>
    /\ logged' = <<>>
    /\ returned' = Void
    /\ thrown' = NoThrow
    /\ UNCHANGED <<inflight, global, debug, attached, requestIdCounter, pendingRequests, promises,
                   allocatedIds, listeners, lastOpenMessageId, lastChangeMessageId>>

\* Data of the 'message' events of the window: the host's reply to request 1.
PairData == {HostMessage("Open", 1, 1, NoErrors)}

PairInit == Init /\ global = BrowserWindow

\* The window is between two handlers of one event: the handler of the
\* first instance has returned, that of the second is bound and not yet
\* called.  What runs here (the reactions of settled promises and other
\* microtasks of the widget) may call any method of either instance; a
\* handler that destroy() unbinds meanwhile is not called.
Dispatching == inflight /= NoEvent /\ peer.attached

\* The window gets a 'message' event and calls the handlers bound to it in
\* the order they were bound: here the _handleMessage of the first instance.
Deliver ==
    /\ ~Dispatching
    /\ attached
    /\ \E data \in PairData :
        LET s == handleMessage(Begin, data)
        IN  /\ inflight' = IF peer.attached THEN Event(data, s.settlements /= <<>>)
                           ELSE NoEvent
            /\ peer' = peer
            /\ pre' = Fields(Cur)
            /\ op' = [name |-> "message", data |-> data]
            /\ global' = s.global
            /\ debug' = s.debug
            /\ attached' = s.attached
            /\ requestIdCounter' = s.requestIdCounter
            /\ pendingRequests' = s.pendingRequests
            /\ promises' = s.promises
            /\ allocatedIds' = s.allocatedIds
            /\ listeners' = s.listeners
            /\ lastOpenMessageId' = s.lastOpenMessageId
            /\ lastChangeMessageId' = s.lastChangeMessageId
            /\ settlements' = s.settlements
            /\ posted' = s.posted
            /\ invoked' = s.invoked
            /\ logged' = s.logged
            /\ returned' = s.returned
            /\ thrown' = s.thrown

\* The window calls the _handleMessage of the second instance: with the
\* event it is dispatching, or with a new event when the first instance is
\* not bound.
DeliverPeer ==
    /\ peer.attached
    /\ Dispatching \/ ~attached
    /\ \E data \in (IF Dispatching THEN {inflight.data} ELSE PairData) :
        /\ peer' = Quiet(handleMessage(peer, data))
        /\ inflight' = NoEvent
        /\ pre' = Fields(Cur)
        /\ op' = [name |-> "peer", call |-> [name |-> "handleMessage", data |-> data]]
        /\ settlements' = <<>>
        /\ posted' = <<>>
        /\ invoked' = <<>>
        /\ logged' = <<>>
        /\ returned' = Void
        /\ thrown' = NoThrow
        /\ UNCHANGED <<global, debug, attached, requestIdCounter, pendingRequests,
                       promises, allocatedIds, listeners, lastOpenMessageId,
                       lastChangeMessageId>>

PairSetDirty ==
    /\ requestIdCounter < MaxPairId
    /\ Commit(setDirty(Begin, Undefined, "ok"),
           [name |-> "setDirty", id |-> Undefined, outcome |-> "ok"])

PairSendRequest ==
    /\ requestIdCounter < MaxPairId
    /\ \E message \in {RequestMessage("ShowDialogRequest", Undefined)} :
        Commit(sendRequest(Begin, message, "ok"),
               [name |-> "sendRequest", message |-> message, outcome |-> "ok"])

PeerSendRequest ==
    /\ peer.requestIdCounter < MaxPairId
    /\ \E message \in {RequestMessage("ShowDialogRequest", Undefined)} :
        CommitPeer(sendRequest(peer, message, "ok"),
                   [name |-> "sendRequest", message |-> message, outcome |-> "ok"])

PairSendMessage ==
    \E message \in {[name |-> "UpdateRequest", updateState |-> "failed"]},
       outcome \in SendOutcomes :
        Commit(sendMessage(Begin, message, outcome),
               [name |-> "sendMessage", message |-> message, outcome |-> outcome])

PeerSendMessage ==
    \E message \in {[name |-> "UpdateRequest", updateState |-> "failed"]},
       outcome \in SendOutcomes :
        CommitPeer(sendMessage(peer, message, outcome),
                   [name |-> "sendMessage", message |-> message, outcome |-> outcome])

PeerSetDirty ==
    /\ peer.requestIdCounter < MaxPairId
    /\ CommitPeer(setDirty(peer, Undefined, "ok"),
               [name |-> "setDirty", id |-> Undefined, outcome |-> "ok"])

PeerOn ==
    \E eventName \in EventNames, callback \in Callbacks :
        CommitPeer(on(peer, eventName, callback),
                   [name |-> "on", eventName |-> eventName, callback |-> callback])

PeerOff ==
    \E eventName \in EventNames, callback \in Callbacks :
        CommitPeer(off(peer, eventName, callback),
                   [name |-> "off", eventName |-> eventName, callback |-> callback])

PeerDestroy ==
    CommitPeer(destroy(peer), [name |-> "destroy"])

PairNext ==
    \/ Deliver
    \/ DeliverPeer
    \/ PairSendRequest
    \/ PairSendMessage
    \/ PairSetDirty
    \/ On
    \/ Off
    \/ Destroy
    \/ PeerSendRequest
    \/ PeerSendMessage
    \/ PeerSetDirty
    \/ PeerOn
    \/ PeerOff
    \/ PeerDestroy

PairSpec == PairInit /\ [][PairNext]_vars

(***************************************************************************)
(* The early-reply machine: the host's messages carry the ids of requests  *)
(* that were sent, were answered or are yet to be sent.                    *)
(***************************************************************************)
\* Host messages that carry a correlationId; an Open carries the same number
\* as its messageId.
EarlyData ==
    {HostMessage("Open", c, c, NoErrors) : c \in 1..MaxId}
    \cup {HostMessage("ShowDialogResponse", c, Undefined, NoErrors) : c \in 1..MaxId}
    \cup {WithAmount(HostMessage("ShowDialogResponse", c, Undefined, NoErrors)) : c \in 1..MaxId}

EarlyInit == Init /\ global = BrowserWindow

EarlyHandleMessage ==
    /\ attached
    /\ \E data \in EarlyData :
        Commit(handleMessage(Begin, data), [name |-> "handleMessage", data |-> data])

\* The methods that make one kind of request each: a call of one of them
\* with arguments left out (undefined) or given, the state to update being
\* one JSON.stringify prints or one it cannot print.
RequestHelper ==
    \/ \E outcome \in SendOutcomes :
          Commit(selectGoodFolder(Begin, outcome),
                 [name |-> "selectGoodFolder", outcome |-> outcome])
    \/ \E buttons \in {[given |-> FALSE],
                        [given |-> TRUE, value |-> <<[name |-> "Yes", caption |-> "Yes"]>>]},
          outcome \in SendOutcomes :
          Commit(showDialog(Begin, "Hi", buttons, outcome),
                 [name |-> "showDialog", text |-> "Hi", buttons |-> buttons,
                  outcome |-> outcome])
    \/ \E target \in {[given |-> FALSE], [given |-> TRUE, value |-> "self"]},
          outcome \in SendOutcomes :
          Commit(navigateTo(Begin, "#/good", target, outcome),
                 [name |-> "navigateTo", path |-> "#/good", target |-> target,
                  outcome |-> outcome])
    \/ \E updateState \in {"failed", BigInt} :
        \E outcome \in OutcomesFor([updateState |-> updateState], SendOutcomes) :
          Commit(update(Begin, updateState, outcome),
                 [name |-> "update", updateState |-> updateState, outcome |-> outcome])
    \/ \E popupParameters \in {[given |-> FALSE], [given |-> TRUE, value |-> [x |-> 1]]},
          outcome \in SendOutcomes :
          Commit(showPopup(Begin, "p", popupParameters, outcome),
                 [name |-> "showPopup", popupName |-> "p",
                  popupParameters |-> popupParameters, outcome |-> outcome])

EarlyNext ==
    \/ EarlyHandleMessage
    \/ SendRequest
    \/ RequestHelper
    \/ On

EarlySpec == EarlyInit /\ [][EarlyNext]_vars

(***************************************************************************)
(* The dispatch machine: the instance with listeners that unsubscribe or   *)
(* destroy the instance while a message is being dispatched to them.       *)
(***************************************************************************)
DispatchCallbacks == {"cbA", "cbC"} \cup SelfRemoving \cup OffCalling \cup Destroying

\* An Open event, and the reply to the first request.
DispatchData ==
    {HostMessage("Open", Undefined, 1, NoErrors),
     HostMessage("ShowDialogResponse", 1, Undefined, NoErrors)}

DispatchInit == Init /\ attached

DispatchHandleMessage ==
    /\ attached
    /\ \E data \in DispatchData :
        Commit(handleMessage(Begin, data), [name |-> "handleMessage", data |-> data])

DispatchOn ==
    \E eventName \in EventNames, callback \in DispatchCallbacks :
        Commit(on(Begin, eventName, callback),
               [name |-> "on", eventName |-> eventName, callback |-> callback])

DispatchNext ==
    \/ DispatchHandleMessage
    \/ DispatchOn
    \/ RegistryRequest
    \/ Off

DispatchSpec == DispatchInit /\ [][DispatchNext]_vars

(***************************************************************************)
(* Properties.  In a state, op is the call that led to it, pre holds the   *)
(* fields of the instance when that call began, and the variables hold the *)
(* instance and the effects of the call when it returned.                  *)
(***************************************************************************)
Range(seq) == {seq[i] : i \in 1..Len(seq)}
IsHostMessage(call) == call.name = "handleMessage" /\ call.data.isObject
\* The last call was _handleMessage with a message whose correlationId was
\* a key of the pending table.
IsReply == IsHostMessage(op) /\ MapHas(pre.pendingRequests, op.data.correlationId)
\* The last call was _handleMessage with a message whose correlationId is the
\* id of a request that was already settled.
IsLateReply ==
    /\ IsHostMessage(op)
    /\ \E h \in 1..Len(pre.promises) :
          pre.promises[h].calls > 0 /\ pre.promises[h].messageId = op.data.correlationId
\* The last call ended where it writes its message to the console: debug is
\* on and JSON.stringify raised for the message.
LogRaised ==
    /\ debug
    /\ \/ op.name \in {"sendRequest", "sendMessage"} /\ Unprintable(op.message)
       \/ op.name = "closePopup" /\ op.response = BigInt
       \/ op.name = "update" /\ op.updateState = BigInt
       \/ IsHostMessage(op) /\ Unprintable(op.data)
\* sendRequest and the methods that return what sendRequest returns.
RequestCalls ==
    {"sendRequest", "selectGoodFolder", "showDialog", "navigateTo", "update", "showPopup"}
\* The last call called postMessage, which raised.
TransportRaised == op.outcome = "throw" /\ ~LogRaised
\* The listener calls a dispatch of message to the listeners of its name makes.
DispatchCalls(registry, message) ==
    IF message.name = NoName THEN <<>>
    ELSE LET array == GetOrEmpty(registry, message.name)
         IN  [i \in 1..Len(array) |-> [listener |-> array[i], message |-> message]]

\* C1: the resolve/reject pair of every request promise is called at most
\* once, whatever inbound messages, failed sends and destroy() calls occur.
C1_SettledAtMostOnce ==
    \A h \in 1..Len(promises) : promises[h].calls <= 1

\* A reply arrives for a request that is already settled, and settles nothing.
C1_Witness ==
    /\ IsLateReply
    /\ settlements = <<>>
    /\ promises = pre.promises

\* C2: a message not named InvalidMessageError whose correlationId is the id
\* of a pending request removes that request's entry and resolves the request
\* with exactly that message.
C2_ReplyResolves ==
    (IsReply /\ op.data.name /= "InvalidMessageError")
    => LET c == op.data.correlationId
           h == pre.pendingRequests[c]
       IN  /\ pre.promises[h].messageId = c
           /\ pre.promises[h].state = "pending"
           /\ ~MapHas(pendingRequests, c)
           /\ settlements = <<[handle |-> h, how |-> "resolve", value |-> op.data,
                             table |-> pendingRequests]>>
           /\ promises[h].state = "fulfilled"

\* C3: a message named InvalidMessageError whose correlationId is the id of a
\* pending request rejects that request, never resolves it, and removes its
\* entry from the pending table.
C3_ErrorReplyRejects ==
    (IsReply /\ op.data.name = "InvalidMessageError")
    => LET c == op.data.correlationId
           h == pre.pendingRequests[c]
       IN  /\ pre.promises[h].state = "pending"
           /\ ~MapHas(pendingRequests, c)
           /\ Len(settlements) = 1
           /\ settlements[1].handle = h
           /\ settlements[1].how = "reject"
           /\ settlements[1].value.name = "InvalidMessageError"
           /\ promises[h].state = "rejected"

\* C4: sendRequest allocates the next id, puts it on the outgoing message in
\* place of any messageId of the caller, and keys the pending entry by it;
\* a call that makes no request leaves the pending table without a new key.
C4_StampsAllocatedId ==
    (op.name = "sendRequest")
    => LET id == pre.requestIdCounter + 1
           h == Len(pre.promises) + 1
       IN  /\ requestIdCounter = id
           /\ ~MapHas(pre.pendingRequests, id)
           /\ DOMAIN pendingRequests \subseteq DOMAIN pre.pendingRequests \cup {id}
           /\ \A i \in 1..Len(posted) : posted[i].messageId = id
           /\ ~LogRaised
                 => /\ returned = [kind |-> "promise", handle |-> h]
                    /\ promises[h].messageId = id
                    /\ (op.outcome = "ok")
                          => /\ posted = <<[op.message EXCEPT !.messageId = id]>>
                             /\ pendingRequests = MapSet(pre.pendingRequests, id, h)

\* A request was sent whose caller had put another messageId on it.
C4_Witness ==
    /\ op.name = "sendRequest"
    /\ op.outcome = "ok"
    /\ op.message.messageId /= Undefined
    /\ op.message.messageId /= requestIdCounter
    /\ posted /= <<>>
    /\ posted[1].messageId = requestIdCounter
    /\ MapHas(pendingRequests, requestIdCounter)

\* C5: a request whose message carries messageId m, the only request
\* pending, is settled by the next inbound message whose correlationId is m
\* (resolved, or rejected when the message is an InvalidMessageError), and
\* the pending table is empty afterwards.
C5_CallerIdCorrelates ==
    [][(op.name = "sendRequest" /\ op.outcome = "ok"
          /\ op.message.messageId /= Undefined
          /\ Cardinality(DOMAIN pendingRequests) = 1
          /\ IsHostMessage(op')
          /\ op'.data.correlationId = op.message.messageId)
       => /\ Len(settlements') = 1
          /\ settlements'[1].handle = returned.handle
          /\ settlements'[1].how = IF op'.data.name = "InvalidMessageError"
                                   THEN "reject" ELSE "resolve"
          /\ pendingRequests' = EmptyMap]_vars

AllocatingHelpers == {"setDirty", "clearDirty", "validationFeedback", "closePopup"}

\* C6: the ids handed out by _nextMessageId are consecutive, each one greater
\* than the one before, so none is handed out twice; the id a call puts on
\* its message or keys its request by is the id it was handed.
C6_IdsConsecutive ==
    /\ \A i \in 2..Len(allocatedIds) : allocatedIds[i] = allocatedIds[i - 1] + 1
    /\ \A i, j \in 1..Len(allocatedIds) : i /= j => allocatedIds[i] /= allocatedIds[j]
    /\ (op.name = "sendRequest" /\ returned.kind = "promise")
          => promises[returned.handle].messageId = allocatedIds[Len(allocatedIds)]
    /\ (op.name \in AllocatingHelpers /\ returned.kind = "message")
          => returned.message.messageId = allocatedIds[Len(allocatedIds)]

\* A helper is handed the second id after the request that was handed the
\* first was rejected by destroy().
C6_Witness ==
    /\ op.name \in AllocatingHelpers
    /\ allocatedIds = <<1, 2>>
    /\ Len(promises) = 1
    /\ promises[1].state = "rejected"
    /\ ~attached
    /\ returned.kind = "message"
    /\ returned.message.messageId = 2

\* C7: a message whose correlationId is the key of a pending request is a
\* reply only: no listener is invoked for it and the last Open/Change ids
\* keep their values; it settles one request unless writing it to the
\* console raised.
C7_ReplyIsNotAnEvent ==
    IsReply
    => /\ invoked = <<>>
       /\ lastOpenMessageId = pre.lastOpenMessageId
       /\ lastChangeMessageId = pre.lastChangeMessageId
       /\ ~LogRaised => Len(settlements) = 1

\* A reply named Open settled a request while a listener was subscribed to
\* Open and the last Open id differs from the reply's messageId.
C7_Witness ==
    /\ IsReply
    /\ op.data.name = "Open"
    /\ Len(settlements) = 1
    /\ GetOrEmpty(pre.listeners, "Open") /= <<>>
    /\ op.data.messageId /= lastOpenMessageId
    /\ invoked = <<>>

\* C8: a message carrying the correlationId of a settled request is
\* discarded: nothing is settled, nothing escapes _handleMessage, no listener
\* is invoked and the last Open/Change ids keep their values.
C8_LateReplyDiscarded ==
    IsLateReply
    => /\ settlements = <<>>
       /\ promises = pre.promises
       /\ pendingRequests = pre.pendingRequests
       /\ thrown = NoThrow
       /\ invoked = <<>>
       /\ lastOpenMessageId = pre.lastOpenMessageId
       /\ lastChangeMessageId = pre.lastChangeMessageId

\* C9: when postMessage raises inside sendRequest, the request is rejected
\* with the transport's error and the pending table is as it was before the
\* call, with no entry for the request's id; nothing was posted.
C9_FailedSendLeavesNoEntry ==
    (op.name = "sendRequest" /\ TransportRaised)
    => LET h == returned.handle
       IN  /\ ~MapHas(pendingRequests, promises[h].messageId)
           /\ pendingRequests = pre.pendingRequests
           /\ settlements = <<[handle |-> h, how |-> "reject", value |-> TransportError,
                             table |-> pendingRequests]>>
           /\ promises[h].state = "rejected"
           /\ posted = <<>>
           /\ thrown = NoThrow

\* A send failed while another request was pending.
C9_Witness ==
    /\ op.name = "sendRequest"
    /\ TransportRaised
    /\ pendingRequests /= EmptyMap
    /\ promises[returned.handle].state = "rejected"

FireAndForgetCalls ==
    {"sendMessage", "openFeedback", "setDirty", "clearDirty", "validationFeedback",
     "closePopup"}

\* C10: sendMessage, called directly or by a helper, leaves the pending table
\* and the promises as they are; a direct call changes no field of the
\* instance and, when postMessage raises, posts nothing, writes a warning
\* and lets nothing escape; what postMessage raises inside a helper does
\* not escape the helper either.
C10_SendMessageKeepsState ==
    /\ (op.name \in FireAndForgetCalls)
          => /\ pendingRequests = pre.pendingRequests
             /\ promises = pre.promises
             /\ settlements = <<>>
             /\ TransportRaised => thrown = NoThrow
    /\ (op.name = "sendMessage")
          => /\ Fields(Cur) = pre
             /\ (op.outcome = "ok" /\ ~LogRaised) => posted = <<op.message>>
             /\ TransportRaised
                   => /\ posted = <<>>
                      /\ thrown = NoThrow
                      /\ [level |-> "warn",
                          text |-> "postMessage error for "
                                     \o (IF op.message.name = NoName THEN "unknown"
                                         ELSE op.message.name)]
                            \in Range(logged)

\* A direct sendMessage failed while a request was pending.
C10_Witness ==
    /\ op.name = "sendMessage"
    /\ TransportRaised
    /\ pendingRequests /= EmptyMap
    /\ posted = <<>>
    /\ \E i \in 1..Len(logged) : logged[i].level = "warn"

\* C11: destroy() rejects every request pending when it is called with the
\* error named SDKDestroyed: each is rejected exactly once, none is resolved
\* and none is left pending.
C11_DestroyRejectsPending ==
    (op.name = "destroy")
    => /\ Len(settlements) = Cardinality(DOMAIN pre.pendingRequests)
       /\ \A i \in 1..Len(settlements) :
             settlements[i].how = "reject" /\ settlements[i].value.name = "SDKDestroyed"
       /\ \A k \in DOMAIN pre.pendingRequests :
             LET h == pre.pendingRequests[k]
             IN  /\ pre.promises[h].state = "pending"
                 /\ promises[h].state = "rejected"
                 /\ promises[h].calls = 1
                 /\ Cardinality({i \in 1..Len(settlements) : settlements[i].handle = h}) = 1

\* destroy() was called with two requests pending and rejected both.
C11_Witness ==
    /\ op.name = "destroy"
    /\ Cardinality(DOMAIN pre.pendingRequests) = 2
    /\ Len(settlements) = 2
    /\ \A h \in 1..Len(promises) : promises[h].state = "rejected"

\* C12: when destroy() returns, the pending table and the listener registry
\* are both empty, whatever they held before.
C12_DestroyEmptiesTables ==
    (op.name = "destroy") => (pendingRequests = EmptyMap /\ listeners = EmptyMap)

\* destroy() was called with a request pending and a callback subscribed.
C12_Witness ==
    /\ op.name = "destroy"
    /\ pre.pendingRequests /= EmptyMap
    /\ GetOrEmpty(pre.listeners, "Open") /= <<>>
    /\ pendingRequests = EmptyMap
    /\ listeners = EmptyMap

\* C13: destroy() unbinds _handleMessage, in whatever window the instance
\* was created, and nothing binds it again, so a message the window gets
\* afterwards reaches no code of the instance: it settles no request,
\* invokes no listener and leaves the last Open/Change ids as they are;
\* _handleMessage runs only while it is bound.
C13_DetachedAfterDestroy ==
    /\ (op.name = "destroy") => ~attached
    /\ ~pre.attached => ~attached
    /\ (op.name = "handleMessage") => pre.attached
    /\ (op.name = "message")
          => /\ ~pre.attached
             /\ settlements = <<>>
             /\ invoked = <<>>
             /\ Fields(Cur) = pre

\* An instance that had a request resolved was destroyed; then a request was
\* made and a callback subscribed, and an Open message that carries the id of
\* the request changed nothing.
C13_Witness ==
    /\ op.name = "message"
    /\ op.data.isObject
    /\ op.data.name = "Open"
    /\ ~attached
    /\ \E h \in 1..Len(promises) : promises[h].state = "fulfilled"
    /\ MapHas(pendingRequests, op.data.correlationId)
    /\ promises[pendingRequests[op.data.correlationId]].state = "pending"
    /\ GetOrEmpty(listeners, "Open") /= <<>>
    /\ op.data.messageId /= lastOpenMessageId
    /\ invoked = <<>>
    /\ settlements = <<>>

\* C14: once destroy() has run the pending table stays empty; in particular
\* it is empty after the call that follows destroy().
C14_TableEmptyAfterDestroy ==
    [][(op.name = "destroy") => (pendingRequests' = EmptyMap)]_vars

\* C15: an instance constructed where addEventListener is missing accepts no
\* request: the first call made on it leaves the pending table empty.
C15_InertAcceptsNoRequest ==
    [][(op.name = "constructor" /\ ~attached) => (pendingRequests' = EmptyMap)]_vars

(***************************************************************************)
(* Properties of the listener registry, checked on the registry machine.   *)
(***************************************************************************)
\* The last call was _handleMessage with a message that matched no pending
\* request.
IsEvent == IsHostMessage(op) /\ ~MapHas(pre.pendingRequests, op.data.correlationId)
\* The calls that subscribe a callback, and the event name such a call names.
SubscribeCalls == {"on"} \cup OnHelpers
SubscribedName(call) ==
    CASE call.name = "on" -> call.eventName
      [] call.name = "onOpen" -> "Open"
      [] call.name = "onOpenPopup" -> "OpenPopup"
      [] call.name = "onSave" -> "Save"
      [] call.name = "onChange" -> "Change"
\* The callbacks registered for name in registry, in the order of the array.
Registered(registry, name) == GetOrEmpty(registry, name)
\* array without the entries equal to x
Without(array, x) == SelectSeq(array, LAMBDA y : y /= x)

\* C16: when a listener raises during the dispatch of an uncorrelated
\* message, every listener registered for the name is still invoked once
\* with that message, nothing escapes _handleMessage, a warning is written
\* for each failure, and the pending table, the promises, the registry and
\* the counter are as they were.
C16_ListenerFailureIsolated ==
    LET array == Registered(pre.listeners, op.data.name)
    IN  (IsEvent /\ op.data.name /= NoName
           /\ (\E i \in 1..Len(array) : array[i] \in Throwing \cup NullThrowing))
        => /\ Len(invoked) = Len(array)
           /\ \A i \in 1..Len(array) :
                 Cardinality({j \in 1..Len(invoked) :
                                invoked[j] = [listener |-> array[i], message |-> op.data]}) = 1
           /\ thrown = NoThrow
           /\ Cardinality({j \in 1..Len(logged) : logged[j].level = "warn"})
                 = Cardinality({i \in 1..Len(array) : array[i] \in Throwing})
           /\ pendingRequests = pre.pendingRequests
           /\ promises = pre.promises
           /\ listeners = pre.listeners
           /\ requestIdCounter = pre.requestIdCounter

\* C17: an uncorrelated message named n is handed to the callbacks
\* registered for n, each exactly once, in the order of registration and to
\* no callback of another name: the dispatch follows the array of n, and a
\* subscription puts a new callback at the end of the array of its name.
C17_DispatchInRegistrationOrder ==
    /\ IsEvent => invoked = DispatchCalls(pre.listeners, op.data)
    /\ ~IsEvent => invoked = <<>>
    /\ (op.name \in SubscribeCalls
          /\ ~Includes(Registered(pre.listeners, SubscribedName(op)), op.callback))
          => listeners = MapSet(pre.listeners, SubscribedName(op),
                                Append(Registered(pre.listeners, SubscribedName(op)),
                                       op.callback))

\* C18: subscribing a callback that is already registered for the name
\* leaves the registry as it is, no array ever holds a callback twice, and
\* the unsubscribe function returned removes the callback when it is called.
C18_DuplicateSubscriptionIsNoOp ==
    /\ \A n \in DOMAIN listeners :
          \A i, j \in 1..Len(listeners[n]) : listeners[n][i] = listeners[n][j] => i = j
    /\ (op.name \in SubscribeCalls)
          => /\ returned = Unsubscriber(SubscribedName(op), op.callback)
             /\ Includes(Registered(pre.listeners, SubscribedName(op)), op.callback)
                   => listeners = pre.listeners
             /\ ~Includes(Registered(unsubscribe(Cur, returned).listeners, SubscribedName(op)),
                          op.callback)
    /\ (op.name = "unsubscribe")
          => ~Includes(Registered(listeners, op.eventName), op.callback)

\* The unsubscribe function of a duplicate subscription was called and
\* removed the callback from an array that held another one as well.
C18_Witness ==
    /\ op.name = "unsubscribe"
    /\ Includes(Registered(pre.listeners, op.eventName), op.callback)
    /\ Len(Registered(pre.listeners, op.eventName)) >= 2
    /\ pre.listeners[op.eventName][1] = op.callback
    /\ ~Includes(Registered(listeners, op.eventName), op.callback)

\* C19: off(name, cb) takes cb out of the array of name and leaves the other
\* callbacks of name in their order and the arrays of the other names as
\* they are; when cb is not registered for name nothing changes; off does not
\* raise and touches nothing but the registry.
C19_OffRemovesOnlyCallback ==
    (op.name = "off")
    => LET array == Registered(pre.listeners, op.eventName)
       IN  /\ thrown = NoThrow
           /\ [Fields(Cur) EXCEPT !.listeners = pre.listeners] = pre
           /\ DOMAIN listeners = DOMAIN pre.listeners
           /\ \A n \in DOMAIN pre.listeners \ {op.eventName} :
                 listeners[n] = pre.listeners[n]
           /\ Includes(array, op.callback)
                 => listeners[op.eventName] = Without(array, op.callback)
           /\ ~Includes(array, op.callback) => listeners = pre.listeners

\* off took the second of three callbacks out of the array of Open while a
\* callback was registered for Save.
C19_Witness ==
    /\ op.name = "off"
    /\ Len(Registered(pre.listeners, "Open")) = 3
    /\ pre.listeners["Open"][2] = op.callback
    /\ Len(Registered(listeners, "Open")) = 2
    /\ Registered(listeners, "Save") /= <<>>

\* C20: once the unsubscribe function of a subscription has been called the
\* callback is out of the array of its name, only a subscribing call for that
\* name and callback puts it back, and a message is handed to no callback
\* that is not in the array of its name.
C20_UnsubscribedIsNotInvoked ==
    /\ (op.name = "unsubscribe")
          => ~Includes(Registered(listeners, op.eventName), op.callback)
    /\ \A n \in DOMAIN listeners :
          \A i \in 1..Len(listeners[n]) :
             ~Includes(Registered(pre.listeners, n), listeners[n][i])
             => (op.name \in SubscribeCalls /\ SubscribedName(op) = n
                 /\ op.callback = listeners[n][i])
    /\ IsHostMessage(op)
          => \A i \in 1..Len(invoked) :
                Includes(Registered(pre.listeners, op.data.name), invoked[i].listener)

\* The callback onSave subscribed was unsubscribed, and a Save message that
\* came later was handed to nobody.
C20_Witness ==
    /\ IsEvent
    /\ op.data.name = "Save"
    /\ MapHas(pre.listeners, "Save")
    /\ pre.listeners["Save"] = <<>>
    /\ invoked = <<>>

(***************************************************************************)
(* Properties of the implicit correlation, checked on the reply machine.   *)
(***************************************************************************)
\* An id argument or a recorded id that stands for "no id".
IsAbsent(id) == id = Undefined \/ id = Null
OpenHelpers == {"openFeedback", "setDirty"}
\* The id the last call of a reply helper put on its message.
RepliedId ==
    IF op.name = "setDirty" THEN returned.message.openMessageId
    ELSE returned.message.correlationId

\* C21: an uncorrelated Open (Change) message with messageId n leaves n as
\* the last Open (Change) id, whatever was recorded before and whether or
\* not a listener is subscribed; the other last id, and both ids in every
\* other call, stay as they were.
C21_LastIdRecorded ==
    /\ (IsEvent /\ op.data.name = "Open")
          => /\ lastOpenMessageId = op.data.messageId
             /\ lastChangeMessageId = pre.lastChangeMessageId
    /\ (IsEvent /\ op.data.name = "Change")
          => /\ lastChangeMessageId = op.data.messageId
             /\ lastOpenMessageId = pre.lastOpenMessageId
    /\ ~(IsEvent /\ op.data.name \in TrackedNames)
          => /\ lastOpenMessageId = pre.lastOpenMessageId
             /\ lastChangeMessageId = pre.lastChangeMessageId

\* C22: an accessor called with an explicit id returns that id and one called
\* without returns the recorded id of its event (null when none is recorded);
\* neither changes a field of the instance, and a reply helper puts the id
\* its accessor returns on its message.
C22_AccessorsPreferExplicit ==
    /\ (op.name \in {"_getOpenMessageId", "_getChangeMessageId"})
          => LET recorded == IF op.name = "_getOpenMessageId" THEN pre.lastOpenMessageId
                             ELSE pre.lastChangeMessageId
             IN  /\ Fields(Cur) = pre
                 /\ ~IsAbsent(op.id) => returned = ReturnId(op.id)
                 /\ IsAbsent(op.id)
                       => returned = ReturnId(IF IsAbsent(recorded) THEN Null ELSE recorded)
    /\ (op.name \in OpenHelpers \cup {"validationFeedback"} /\ returned.kind = "message")
          => LET recorded == IF op.name \in OpenHelpers THEN pre.lastOpenMessageId
                             ELSE pre.lastChangeMessageId
             IN  /\ RepliedId = IF IsAbsent(op.id) THEN recorded ELSE op.id
                 /\ lastOpenMessageId = pre.lastOpenMessageId
                 /\ lastChangeMessageId = pre.lastChangeMessageId

\* C23: an accessor reports absence only when the explicit and the recorded
\* id are both undefined or null; an id of 0, explicit or recorded, is
\* returned as 0 and the reply helper sends its message with it.
C23_ZeroIsAnId ==
    /\ (op.name \in {"_getOpenMessageId", "_getChangeMessageId"})
          => LET recorded == IF op.name = "_getOpenMessageId" THEN pre.lastOpenMessageId
                             ELSE pre.lastChangeMessageId
             IN  returned = ReturnId(IF ~IsAbsent(op.id) THEN op.id
                                     ELSE IF ~IsAbsent(recorded) THEN recorded
                                     ELSE Null)
    /\ (op.name \in OpenHelpers \cup {"validationFeedback"})
          => LET recorded == IF op.name \in OpenHelpers THEN pre.lastOpenMessageId
                             ELSE pre.lastChangeMessageId
             IN  (returned = ReturnNull) <=> (IsAbsent(op.id) /\ IsAbsent(recorded))

\* C24: openFeedback and setDirty (validationFeedback) called without an
\* explicit id before any Open (Change) message was routed return null, write
\* a warning, send nothing, take no message id and change no field.
C24_MissingIdGuard ==
    ((op.name \in OpenHelpers /\ op.id = Undefined /\ pre.lastOpenMessageId = Null)
       \/ (op.name = "validationFeedback" /\ op.id = Undefined
            /\ pre.lastChangeMessageId = Null))
    => /\ returned = ReturnNull
       /\ posted = <<>>
       /\ \E i \in 1..Len(logged) : logged[i].level = "warn"
       /\ thrown = NoThrow
       /\ Fields(Cur) = pre

\* validationFeedback() was called after an Open but before any Change.
C24_Witness ==
    /\ op.name = "validationFeedback"
    /\ op.id = Undefined
    /\ pre.lastChangeMessageId = Null
    /\ pre.lastOpenMessageId = 1
    /\ returned = ReturnNull
    /\ posted = <<>>

(***************************************************************************)
(* Properties of the inbound and outbound paths.                           *)
(***************************************************************************)
\* C25: event.data that is not an object is dropped: _handleMessage does not
\* raise, invokes no listener, settles nothing, posts nothing and leaves
\* every field of the instance as it was.
C25_NonObjectDropped ==
    (op.name = "handleMessage" /\ ~op.data.isObject)
    => /\ thrown = NoThrow
       /\ invoked = <<>>
       /\ settlements = <<>>
       /\ posted = <<>>
       /\ Fields(Cur) = pre
       /\ \A i \in 1..Len(logged) : logged[i].level = "log"

\* A primitive arrived while a request was pending and a callback subscribed.
C25_Witness ==
    /\ op.name = "handleMessage"
    /\ ~op.data.isObject
    /\ op.data.kind = "primitive"
    /\ pendingRequests /= EmptyMap
    /\ Registered(listeners, "Open") /= <<>>
    /\ lastOpenMessageId = 1

\* C26: a request stays in the pending table, its promise pending, until an
\* inbound message carries its id, its own send fails, or destroy() is
\* called: every promise that is pending has its entry, every entry has a
\* pending promise, and only those three take an entry out or settle a
\* promise.
C26_PendingUntilSettled ==
    /\ \A k \in DOMAIN pendingRequests :
          /\ promises[pendingRequests[k]].state = "pending"
          /\ promises[pendingRequests[k]].messageId = k
    /\ \A h \in 1..Len(promises) :
          promises[h].state = "pending"
          => /\ MapHas(pendingRequests, promises[h].messageId)
             /\ pendingRequests[promises[h].messageId] = h
    /\ \A k \in DOMAIN pre.pendingRequests \ DOMAIN pendingRequests :
          \/ IsHostMessage(op) /\ op.data.correlationId = k
          \/ op.name = "destroy"
    /\ \A h \in 1..Len(promises) :
          promises[h].state /= "pending"
          => \/ h <= Len(pre.promises) /\ pre.promises[h].state /= "pending"
             \/ h <= Len(pre.promises) /\ IsHostMessage(op)
                  /\ op.data.correlationId = promises[h].messageId
             \/ h <= Len(pre.promises) /\ op.name = "destroy"
             \/ h > Len(pre.promises) /\ op.name = "sendRequest"
                  /\ op.outcome \in {"throw"} \cup EchoOutcomes

\* The second request got its reply; the first, sent before it, is still
\* pending and in the table.
C26_Witness ==
    /\ IsHostMessage(op)
    /\ op.data.correlationId = 2
    /\ MapHas(pre.pendingRequests, 2)
    /\ ~MapHas(pendingRequests, 2)
    /\ MapHas(pendingRequests, 1)
    /\ promises[pendingRequests[1]].state = "pending"

\* The API operations of the pair machine.
PairApiCalls == {"sendRequest", "sendMessage", "setDirty", "on", "off", "destroy"}

\* C27: an API operation on one of two instances leaves the other instance's
\* id counter, pending-request table, promises, listener registry, window
\* binding and recorded last ids as they were.
C27_InstancesShareNoState ==
    [][/\ (op'.name = "peer" /\ op'.call.name \in PairApiCalls)
            => Fields(Cur)' = Fields(Cur)
       /\ op'.name \in PairApiCalls
            => Fields(peer)' = Fields(peer)]_vars

\* The second instance has just sent its first request, which is pending
\* under id 1, while the first instance, whose own request 1 was answered,
\* keeps a listener and a recorded Open id and has nothing pending.
C27_Witness ==
    /\ op.name = "peer"
    /\ op.call.name = "sendRequest"
    /\ peer.requestIdCounter = 1
    /\ MapHas(peer.pendingRequests, 1)
    /\ peer.listeners = EmptyMap
    /\ peer.lastOpenMessageId = Null
    /\ requestIdCounter = 1
    /\ pendingRequests = EmptyMap
    /\ Registered(listeners, "Open") /= <<>>
    /\ lastOpenMessageId = 1
    /\ Fields(Cur) = pre

\* C28: the error a correlated InvalidMessageError reply rejects with has the
\* name InvalidMessageError, the error text of the first entry of errors (the
\* fallback text when there is none), errors as details (the absence marker
\* when the reply has no errors) and the whole reply as rawMessage.
C28_RejectionCarriesReply ==
    (IsReply /\ op.data.name = "InvalidMessageError")
    => LET errors == op.data.errors
       IN  /\ Len(settlements) = 1
           /\ settlements[1].how = "reject"
           /\ settlements[1].value.name = "InvalidMessageError"
           /\ settlements[1].value.message
                 = IF errors.defined /\ errors.list /= <<>> /\ Head(errors.list) /= ""
                   THEN Head(errors.list) ELSE "Unknown error"
           /\ settlements[1].value.details
                 = [isNull |-> ~errors.defined, list |-> errors.list]
           /\ settlements[1].value.rawMessage = op.data

\* A request was rejected by a reply with two error entries.
C28_Witness ==
    /\ IsReply
    /\ op.data.name = "InvalidMessageError"
    /\ op.data.errors = Errors(<<"Bad payload", "Second">>)
    /\ Len(settlements) = 1
    /\ settlements[1].value.message = "Bad payload"
    /\ settlements[1].value.details.list = <<"Bad payload", "Second">>

\* The last call wrote a warning: a send of its own failed, the reply handled
\* during the send of a request raised, a helper found no id, or a listener
\* raised.
Warns ==
    \/ op.name \in {"sendRequest", "sendMessage"} /\ TransportRaised
    \/ op.name = "sendRequest" /\ op.outcome = "echoAmount" /\ debug /\ pre.attached
    \/ op.name \in OpenHelpers /\ returned = ReturnNull
    \/ IsEvent /\ \E i \in 1..Len(invoked) : invoked[i].listener \in Throwing

\* C29: lines of level log are written only while debug is on, and then
\* every call that sends, handles a message or destroys writes one unless
\* printing the message raised; a warning is written whether debug is on or
\* off.
C29_DebugGatesInformation ==
    /\ \A i \in 1..Len(logged) : logged[i].level = "log" => debug
    /\ (debug /\ ~LogRaised
          /\ op.name \in {"sendRequest", "sendMessage", "handleMessage", "destroy"})
          => \E i \in 1..Len(logged) : logged[i].level = "log"
    /\ Warns <=> \E i \in 1..Len(logged) : logged[i].level = "warn"

\* With debug off a listener raised and the warning is all that was written.
C29_Witness ==
    /\ ~debug
    /\ IsEvent
    /\ invoked /= <<>>
    /\ invoked[1].listener \in Throwing
    /\ Len(logged) = 1
    /\ logged[1].level = "warn"

\* C30: the pending entry is stored before postMessage is called: a reply
\* with the id of the request that is handled while postMessage is running
\* settles the request, which resolves with it, and is not taken for an
\* event.
C30_EchoSettlesRequest ==
    (op.name = "sendRequest" /\ op.outcome \in EchoOutcomes /\ pre.attached)
    => LET h == returned.handle
           id == promises[h].messageId
       IN  /\ posted = <<[op.message EXCEPT !.messageId = id]>>
           /\ settlements = <<[handle |-> h, how |-> "resolve",
                              value |-> EchoReply(op.outcome, posted[1]),
                              table |-> pendingRequests]>>
           /\ promises[h].state = "fulfilled"
           /\ pendingRequests = pre.pendingRequests
           /\ invoked = <<>>
           /\ lastOpenMessageId = pre.lastOpenMessageId


\* C31: a message that correlates to a pending request settles that request
\* and no other: its entry alone leaves the table, every other promise is as
\* it was, no listener is called, and the registry, the id counter and the
\* recorded last ids are unchanged.
C31_ReplySettlesOnlyItsRequest ==
    IsReply
    => LET c == op.data.correlationId
           h == pre.pendingRequests[c]
       IN  /\ pendingRequests = MapDelete(pre.pendingRequests, c)
           /\ Len(promises) = Len(pre.promises)
           /\ \A g \in 1..Len(promises) : g /= h => promises[g] = pre.promises[g]
           /\ \A i \in 1..Len(settlements) : settlements[i].handle = h
           /\ invoked = <<>>
           /\ listeners = pre.listeners
           /\ requestIdCounter = pre.requestIdCounter
           /\ lastOpenMessageId = pre.lastOpenMessageId
           /\ lastChangeMessageId = pre.lastChangeMessageId


\* The id a guarded helper resolved: the explicit one, else the recorded one.
ResolvedId ==
    IF ~IsAbsent(op.id) THEN op.id
    ELSE IF op.name \in OpenHelpers THEN pre.lastOpenMessageId
    ELSE pre.lastChangeMessageId

\* C33: setDirty, clearDirty, validationFeedback and closePopup, when they
\* send, put one fresh messageId on the message and advance the counter by
\* one; openFeedback sends name and correlationId only and leaves the counter
\* alone; setDirty carries the resolved id as openMessageId, openFeedback and
\* validationFeedback as correlationId.
C33_HelpersStampOneId ==
    (op.name \in AllocatingHelpers \cup {"openFeedback"} /\ returned.kind = "message")
    => LET message == returned.message
       IN  /\ (op.outcome = "ok") => posted = <<message>>
           /\ (op.name \in AllocatingHelpers)
                 => /\ requestIdCounter = pre.requestIdCounter + 1
                    /\ message.messageId = requestIdCounter
           /\ (op.name = "openFeedback")
                 => /\ requestIdCounter = pre.requestIdCounter
                    /\ message = [name |-> "OpenFeedback", correlationId |-> ResolvedId]
           /\ (op.name = "setDirty")
                 => message = [name |-> "SetDirty", messageId |-> requestIdCounter,
                               openMessageId |-> ResolvedId]
           /\ (op.name = "clearDirty")
                 => message = [name |-> "ClearDirty", messageId |-> requestIdCounter]
           /\ (op.name = "validationFeedback")
                 => /\ DOMAIN message = {"name", "messageId", "correlationId", "valid", "message"}
                    /\ message.name = "ValidationFeedback"
                    /\ message.correlationId = ResolvedId
           /\ (op.name = "closePopup")
                 => /\ message.name = "ClosePopup"
                    /\ "correlationId" \notin DOMAIN message

\* openFeedback() sent its message with the recorded Open id after a request
\* had taken id 1: the counter is still 1.
C33_Witness ==
    /\ op.name = "openFeedback"
    /\ op.id = Undefined
    /\ op.outcome = "ok"
    /\ pre.lastOpenMessageId = 1
    /\ pre.requestIdCounter = 1
    /\ requestIdCounter = 1
    /\ posted = <<[name |-> "OpenFeedback", correlationId |-> 1]>>


\* C34: the keys of the pending table are ids the counter has handed out, one
\* request per key and one key per request; no two requests ever got the same
\* id; a request is in the table exactly when it was issued and neither of
\* its settle functions has been called.
C34_TableHoldsUnsettledIssued ==
    /\ DOMAIN pendingRequests \subseteq 1..requestIdCounter
    /\ \A j, k \in DOMAIN pendingRequests :
          j /= k => pendingRequests[j] /= pendingRequests[k]
    /\ \A g, h \in 1..Len(promises) :
          g /= h => promises[g].messageId /= promises[h].messageId
    /\ \A h \in 1..Len(promises) : promises[h].messageId \in Range(allocatedIds)
    /\ DOMAIN pendingRequests
          = {promises[h].messageId : h \in {g \in 1..Len(promises) : promises[g].calls = 0}}
    /\ \A k \in DOMAIN pendingRequests : promises[pendingRequests[k]].messageId = k

\* The first of two requests was answered: the table holds the key 2 alone
\* while the counter stands at 2.
C34_Witness ==
    /\ requestIdCounter = 2
    /\ DOMAIN pendingRequests = {2}
    /\ Len(promises) = 2
    /\ promises[1].state = "fulfilled"
    /\ promises[2].calls = 0


GuardedHelpers == {"openFeedback", "setDirty", "validationFeedback"}

\* C38: a guarded reply helper that returns null, for whatever reason it
\* found no id, posts nothing, lets nothing escape and leaves every field as
\* it was; the id the next allocation hands out is the one it would have
\* handed out before the call.
C38_RefusalChangesNothing ==
    (op.name \in GuardedHelpers /\ returned = ReturnNull)
    => /\ posted = <<>>
       /\ settlements = <<>>
       /\ invoked = <<>>
       /\ thrown = NoThrow
       /\ Fields(Cur) = pre
       /\ nextMessageId(Cur).requestIdCounter = pre.requestIdCounter + 1

\* setDirty(null) refused after an Open without a messageId, while the
\* counter stood at 1.
C38_Witness ==
    /\ op.name = "setDirty"
    /\ op.id = Null
    /\ pre.lastOpenMessageId = Undefined
    /\ returned = ReturnNull
    /\ pre.requestIdCounter = 1
    /\ requestIdCounter = 1


\* C39: the recorded Open (Change) id is what the last Open (Change) message
\* that matched no pending request carried, also when it carried no
\* messageId: the id recorded before is gone, and a reply helper called
\* without an explicit id then returns null and sends nothing.  An Open
\* leaves the recorded Change id as it was, and a Change the Open id.
C39_LastMessageAloneCounts ==
    /\ (IsEvent /\ op.data.name = "Open")
          => /\ lastOpenMessageId = op.data.messageId
             /\ lastChangeMessageId = pre.lastChangeMessageId
    /\ (IsEvent /\ op.data.name = "Change")
          => /\ lastChangeMessageId = op.data.messageId
             /\ lastOpenMessageId = pre.lastOpenMessageId
    /\ (op.name \in OpenHelpers /\ IsAbsent(op.id) /\ pre.lastOpenMessageId = Undefined)
          => returned = ReturnNull /\ posted = <<>>
    /\ (op.name = "validationFeedback" /\ IsAbsent(op.id)
            /\ pre.lastChangeMessageId = Undefined)
          => returned = ReturnNull /\ posted = <<>>


\* C40: a message whose correlationId is no key of the pending table when it
\* is routed settles nothing and changes neither table nor promises; it goes
\* to the listeners of its name, or to none when writing it to the console
\* raised.  A request sent afterwards, by sendRequest or by one of the
\* methods that call it, is pending and in the table when the call returns,
\* whatever ids earlier messages carried.
C40_RepliesAreNotBuffered ==
    /\ IsEvent
          => /\ settlements = <<>>
             /\ promises = pre.promises
             /\ pendingRequests = pre.pendingRequests
             /\ invoked = IF LogRaised THEN <<>> ELSE DispatchCalls(pre.listeners, op.data)
    /\ (op.name \in RequestCalls /\ op.outcome = "ok" /\ ~LogRaised)
          => /\ settlements = <<>>
             /\ promises[returned.handle].state = "pending"
             /\ promises[returned.handle].calls = 0
             /\ MapHas(pendingRequests, promises[returned.handle].messageId)
             /\ pendingRequests[promises[returned.handle].messageId] = returned.handle

\* The first request was sent after an Open with correlationId 1 had been
\* routed as an event (it left 1 as the recorded Open id while the counter
\* stood at 0): the request is pending under the key 1.
C40_Witness ==
    /\ op.name = "sendRequest"
    /\ op.outcome = "ok"
    /\ pre.requestIdCounter = 0
    /\ pre.lastOpenMessageId = 1
    /\ requestIdCounter = 1
    /\ MapHas(pendingRequests, 1)
    /\ promises[pendingRequests[1]].state = "pending"


\* C32: destroy() calls the reject function of every pending request while
\* the pending table holds all the entries it held when destroy() began, and
\* the table is empty when destroy() returns.
C32_RejectsBeforeClearing ==
    (op.name = "destroy")
    => /\ Len(settlements) = Cardinality(DOMAIN pre.pendingRequests)
       /\ \A i \in 1..Len(settlements) :
             /\ settlements[i].how = "reject"
             /\ settlements[i].table = pre.pendingRequests
             /\ \E k \in DOMAIN settlements[i].table :
                   settlements[i].table[k] = settlements[i].handle
       /\ \A k \in DOMAIN pre.pendingRequests :
             promises[pre.pendingRequests[k]].state = "rejected"
       /\ pendingRequests = EmptyMap

\* destroy() rejected two pending requests, each while the table held both.
C32_Witness ==
    /\ op.name = "destroy"
    /\ DOMAIN pre.pendingRequests = {1, 2}
    /\ Len(settlements) = 2
    /\ settlements[2].table = pre.pendingRequests
    /\ pendingRequests = EmptyMap


\* C36: a reply the window delivers while two instances are attached to it
\* settles a pending request of at most one of them: when the handler of the
\* first instance settled a request with it, the handler of the second
\* settles none.
C36_ReplySettlesOneInstance ==
    [][(Dispatching /\ inflight.settled /\ inflight' = NoEvent)
         => peer'.promises = peer.promises]_vars


(***************************************************************************)
(* Properties of a dispatch whose listeners call back into the instance.   *)
(***************************************************************************)
\* C35: when listeners unsubscribe themselves or each other during the
\* dispatch of an event, every callback that was registered for the name
\* when the dispatch began and is still registered after it was invoked.
C35_UnremovedAreInvoked ==
    (IsEvent /\ op.data.name /= NoName)
    => \A callback \in Range(Registered(pre.listeners, op.data.name))
                        \cap Range(Registered(listeners, op.data.name)) :
          \E i \in 1..Len(invoked) : invoked[i].listener = callback

\* C37: no listener is invoked after destroy(): none on an instance whose
\* binding is gone, and none in the rest of a dispatch in which a listener
\* called destroy().
C37_NoCallbackAfterDestroy ==
    /\ ~pre.attached => invoked = <<>>
    /\ \A i \in 1..Len(invoked) :
          invoked[i].listener \in Destroying => i = Len(invoked)

====
